---- MODULE Spec2Model ----
(***************************************************************************)
(* Model of pymarthe/mfield.py: the MartheField flat table (a record array *)
(* with one row per grid cell), its masking against the model's active     *)
(* domain (mm.imask), the grid <-> table conversions and the row queries,  *)
(* the sampling of the table through the model's spatial index, the zonal  *)
(* statistics, and the MartheFieldSeries store of simulated fields.        *)
(*                                                                         *)
(* A table is a sequence of rows [layer, inest, i, j, x, y, value]; python *)
(* objects that can be shared between names (record arrays) live in `heap` *)
(* and are named by references, so that `self.data = rec` (an alias) and   *)
(* `deepcopy(...)` (a fresh object) are different things.                  *)
(* Coordinates are integers on a lattice with even spacing, so that the    *)
(* halves taken by np.gradient and by the origin are exact.                *)
(***************************************************************************)
EXTENDS Integers, Sequences, FiniteSets, TLC

VARIABLES
    use_imask,   \* MartheField.use_imask
    field,       \* MartheField.field (the property name)
    ref,         \* which model the field belongs to (its mm.imask geometry)
    heap,        \* reference -> record array (<<>> when the object is not live)
    data,        \* MartheField.data: a reference, or NoData before it is set
    src,         \* the record array the caller built the field from and kept
                 \* (a reference, or NoData)
    built,       \* MartheField.__init__ has returned
    op,          \* the last call: its name and the kind of its argument
    err,         \* the last call raised
    ret,         \* what the last call returned (<<>> when nothing or raised)
    calls,       \* how many calls have changed or tried to change the field
    spatial_index, \* mm.spatial_index: None, or the index's entries
    chasim,      \* the simulated field file: its records (field, istep)
    mfs          \* the MartheFieldSeries: its fields and its data dictionary

vars == <<use_imask, field, ref, heap, data, src, built, op, err, ret, calls,
          spatial_index, chasim, mfs>>

----------------------------------------------------------------------------
(* Bounds of the model *)

\* non-masked values a caller writes are 2 .. 1 + MaxVal
MaxVal == 1
\* records of a zpc parameter file
MaxParRecs == 1
\* calls of set_data and set_data_from_parfile on one field
MaxCalls == 2

----------------------------------------------------------------------------
(* Small helpers (numpy idioms) *)

NoData == "NoData"
IMASK == "imask"

\* module constant `dmv`: default field masked values
dmv == {-9999, 0, 9999}

Min(S) == CHOOSE m \in S : \A n \in S : m <= n
Max(S) == CHOOSE m \in S : \A n \in S : m >= n

RECURSIVE SortedSeq(_)
\* the ascending sequence of a finite set of integers
SortedSeq(S) == IF S = {} THEN <<>>
                ELSE LET m == Min(S) IN <<m>> \o SortedSeq(S \ {m})

\* np.unique(a): the sorted distinct elements
np_unique(a) == SortedSeq({a[k] : k \in DOMAIN a})

\* np.flip(a)
np_flip(a) == [k \in 1..Len(a) |-> a[Len(a) + 1 - k]]

Col(T, f) == [k \in 1..Len(T) |-> T[k][f]]

RECURSIVE Compress(_, _)
\* a[mask] for a boolean mask of the same length
Compress(a, mask) ==
    IF a = <<>> THEN <<>>
    ELSE (IF Head(mask) THEN <<Head(a)>> ELSE <<>>) \o Compress(Tail(a), Tail(mask))

RECURSIVE Concat(_)
\* concatenation of a sequence of sequences
Concat(ss) == IF ss = <<>> THEN <<>> ELSE Head(ss) \o Concat(Tail(ss))

\* marthe_utils.make_iterable on an optional argument: the arguments `layer`
\* and `inest` are [none |-> TRUE] for None, else the ids given (a scalar is
\* the one-element list)
ArgNone == [none |-> TRUE, v |-> <<>>]
Arg(s) == [none |-> FALSE, v |-> s]
make_iterable(a) == a.v

\* str.casefold on the field names of the model
casefold(s) == IF s = "IMASK" THEN "imask" ELSE s

----------------------------------------------------------------------------
(* MartheGrid and the conversions *)

\* MartheGrid(istep, layer, inest, nrow, ncol, xl, yl, dx, dy, xcc, ycc, array)
MartheGrid(istep, layer, inest, nrow, ncol, xl, yl, dx, dy, xcc, ycc, array, fld) ==
    [istep |-> istep, layer |-> layer, inest |-> inest, nrow |-> nrow,
     ncol |-> ncol, xl |-> xl, yl |-> yl, dx |-> dx, dy |-> dy,
     xcc |-> xcc, ycc |-> ycc, array |-> array, field |-> fld]

\* MartheGrid.to_records: one row per cell, row-major, x from the column's
\* centre and y from the row's centre
to_records(mg) ==
    [k \in 1..(mg.nrow * mg.ncol) |->
        LET i == (k - 1) \div mg.ncol
            j == (k - 1) % mg.ncol
        IN  [layer |-> mg.layer, inest |-> mg.inest, i |-> i, j |-> j,
             x |-> mg.xcc[j + 1], y |-> mg.ycc[i + 1],
             value |-> mg.array[i + 1][j + 1]]]

\* MartheField.grids2rec: stack the grids' records in the order supplied
grids2rec(grids) == Concat([g \in 1..Len(grids) |-> to_records(grids[g])])

\* np.gradient of a 1D array with unit spacing (needs two elements)
np_gradient_ok(a) == Len(a) >= 2
np_gradient(a) ==
    [k \in 1..Len(a) |->
        IF k = 1 THEN a[2] - a[1]
        ELSE IF k = Len(a) THEN a[Len(a)] - a[Len(a) - 1]
        ELSE (a[k + 1] - a[k - 1]) \div 2]

Abs(n) == IF n < 0 THEN 0 - n ELSE n

----------------------------------------------------------------------------
(* MartheField.get_data *)

\* what a call yields: a value, or an exception
Ok(v) == [err |-> FALSE, val |-> v]
Raise == [err |-> TRUE, val |-> <<>>]

\* the layers and nests get_data works on: the table's own when None
Layers(T, layer) == IF layer.none THEN np_unique(Col(T, "layer"))
                    ELSE make_iterable(layer)
Inests(T, inest) == IF inest.none THEN np_unique(Col(T, "inest"))
                    ELSE make_iterable(inest)

\* np.isin(a, s) for one element
isin(a, s) == a \in {s[k] : k \in DOMAIN s}

\* Mutant: the masked values are not excluded
RowMaskAnyValue(T, layers, inests, mv) ==
    [k \in 1..Len(T) |-> /\ isin(T[k].layer, layers)
                         /\ isin(T[k].inest, inests)]

\* the boolean row mask of get_data: layer among the layers, nest among the
\* nests, value not among the masked values `mv`
RowMask(T, layers, inests, mv) ==
    [k \in 1..Len(T) |-> /\ isin(T[k].layer, layers)
                         /\ isin(T[k].inest, inests)
                         /\ T[k].value \notin mv]

\* ndata: the rows of one (layer, inest) group, in table order
GroupRows(T, l, n) ==
    Compress(T, [k \in 1..Len(T) |-> T[k].layer = l /\ T[k].inest = n])

\* Mutant: the rows that are complete, whatever the number of elements
reshape_truncating(a, nrow, ncol) ==
    Ok([i \in 1..(Len(a) \div ncol) |-> [j \in 1..ncol |-> a[(i - 1) * ncol + j]]])

\* a.reshape(nrow, ncol): raises unless a has nrow * ncol elements
reshape(a, nrow, ncol) ==
    IF Len(a) # nrow * ncol THEN Raise
    ELSE Ok([i \in 1..nrow |-> [j \in 1..ncol |-> a[(i - 1) * ncol + j]]])

\* the array of one group: np.max of an empty group raises, then reshape to
\* (max(i) + 1, max(j) + 1)
ArrayOfRows(ndata) ==
    IF ndata = <<>> THEN Raise
    ELSE reshape(Col(ndata, "value"),
                 Max({ndata[k].i : k \in DOMAIN ndata}) + 1,
                 Max({ndata[k].j : k \in DOMAIN ndata}) + 1)

\* the results of a loop: the first exception, or all the values
Gather(all) ==
    IF \E k \in DOMAIN all : all[k].err THEN Raise
    ELSE Ok([k \in DOMAIN all |-> all[k].val])

\* the as_array branch: one array per layer, then per nest, in argument order
ArraysOver(T, layers, inests) ==
    Gather([k \in 1..(Len(layers) * Len(inests)) |->
               ArrayOfRows(GroupRows(T, layers[((k - 1) \div Len(inests)) + 1],
                                        inests[((k - 1) % Len(inests)) + 1]))])

\* get_data(layer, inest, as_array, as_mask, masked_values) on the table T
get_data(T, layer, inest, as_array, as_mask, mv) ==
    IF as_mask THEN Ok(RowMask(T, Layers(T, layer), Inests(T, inest), mv))
    ELSE IF as_array THEN ArraysOver(T, Layers(T, layer), Inests(T, inest))
    ELSE Ok(Compress(T, RowMask(T, Layers(T, layer), Inests(T, inest), mv)))

----------------------------------------------------------------------------
(* MartheField._rec2grid and to_grids *)

\* dx, dy: the absolute gradient of the centres
AbsGradient(a) == [k \in DOMAIN a |-> Abs(np_gradient(a)[k])]

\* the MartheGrid of _rec2grid from its array, centres and spacings
GridOf(l, n, fld, array, xcc, ycc, dx, dy) ==
    MartheGrid(-9999, l, n, Len(array), Len(array[1]),
               xcc[1] - (dx[1] \div 2), ycc[Len(ycc)] - (dy[Len(dy)] \div 2),
               dx, dy, xcc, ycc, array, fld)

\* _rec2grid once the array (arrs) and the centres are known
GridOfCentres(l, n, fld, arrs, xcc, ycc) ==
    IF arrs.err THEN Raise
    ELSE IF ~np_gradient_ok(xcc) \/ ~np_gradient_ok(ycc) THEN Raise
    ELSE Ok(GridOf(l, n, fld, arrs.val[1], xcc, ycc,
                   AbsGradient(xcc), AbsGradient(ycc)))

\* _rec2grid once the array (arrs) and the rows (rec) are selected
GridOfRows(l, n, fld, arrs, rec) ==
    GridOfCentres(l, n, fld, arrs, np_unique(Col(rec, "x")),
                  np_flip(np_unique(Col(rec, "y"))))

_rec2grid(T, l, n, fld) ==
    GridOfRows(l, n, fld,
               get_data(T, Arg(<<l>>), Arg(<<n>>), TRUE, FALSE, {}),
               get_data(T, Arg(<<l>>), Arg(<<n>>), FALSE, FALSE, {}).val)

\* Mutant: a nest and a layer without rows give no grid
GridsOver_skipping(T, ns, ls, fld) ==
    Gather(SelectSeq([k \in 1..(Len(ns) * Len(ls)) |->
                         _rec2grid(T, ls[((k - 1) % Len(ls)) + 1],
                                      ns[((k - 1) \div Len(ls)) + 1], fld)],
                     LAMBDA g : ~g.err))

\* the loop of to_grids: nests ascending, then layers ascending
GridsOver(T, ns, ls, fld) ==
    Gather([k \in 1..(Len(ns) * Len(ls)) |->
               _rec2grid(T, ls[((k - 1) % Len(ls)) + 1],
                            ns[((k - 1) \div Len(ls)) + 1], fld)])

\* to_grids(layer, inest): over the nests and layers of the selected rows
to_grids(T, layer, inest, fld) ==
    GridsOver(T,
              np_unique(Col(get_data(T, layer, inest, FALSE, FALSE, {}).val, "inest")),
              np_unique(Col(get_data(T, layer, inest, FALSE, FALSE, {}).val, "layer")),
              fld)

----------------------------------------------------------------------------
(* Masking: MartheField.get_masked *)

\* the condition of get_masked's first branch: a model dependent grid
IsBound(u, f) == u /\ casefold(f) # "imask"

\* Mutant: the values are copied on every row, masked or not
MaskAssignAll(A, mask, B) ==
    [k \in 1..Len(A) |-> [A[k] EXCEPT !.value = B[k].value]]

\* a[mask] = b[mask] on the value column (a and b of the same length)
MaskAssign(A, mask, B) ==
    [k \in 1..Len(A) |-> IF mask[k] THEN [A[k] EXCEPT !.value = B[k].value]
                         ELSE A[k]]

\* a[mask] = v on the value column
MaskFill(A, mask, v) ==
    [k \in 1..Len(A) |-> IF mask[k] THEN [A[k] EXCEPT !.value = v] ELSE A[k]]

\* Mutant: the result is built on a copy of rec that takes the masked values
\* of R, so it has the rows of rec
MaskOntoRec(R, mask, rec) ==
    IF Len(rec) # Len(R) THEN [err |-> TRUE, val |-> <<>>, alias |-> FALSE]
    ELSE [err |-> FALSE,
          val |-> [k \in 1..Len(rec) |->
                      IF mask[k] THEN rec[k]
                      ELSE [rec[k] EXCEPT !.value = R[k].value]],
          alias |-> FALSE]

\* Mutant: a[mask] = b[:mask.sum()], the first values of rec instead of the
\* values of the masked rows
MaskOntoPacked(R, mask, rec) ==
    IF Len(rec) # Len(R) THEN [err |-> TRUE, val |-> <<>>, alias |-> FALSE]
    ELSE [err |-> FALSE,
          val |-> [k \in 1..Len(R) |->
                      IF mask[k]
                      THEN [R[k] EXCEPT !.value =
                               rec[Cardinality({a \in 1..k : mask[a]})].value]
                      ELSE R[k]],
          alias |-> FALSE]

\* the first branch of get_masked: a copy of the imask table R that takes the
\* values of rec where `mask` holds; indexing rec['value'] with a mask of
\* another length raises
MaskOnto(R, mask, rec) ==
    IF Len(rec) # Len(R) THEN [err |-> TRUE, val |-> <<>>, alias |-> FALSE]
    ELSE [err |-> FALSE, val |-> MaskAssign(R, mask, rec), alias |-> FALSE]

\* get_masked(rec) for a field (u, f) of a model whose imask table is R.
\* `alias` says that the returned array is the argument itself, not a copy
get_masked(u, f, R, rec) ==
    IF IsBound(u, f)
    THEN MaskOnto(R, get_data(R, ArgNone, ArgNone, FALSE, TRUE, dmv).val, rec)
    ELSE [err |-> FALSE, val |-> rec, alias |-> TRUE]

----------------------------------------------------------------------------
(* MartheField._3d2rec *)

\* np.ravel of a 2D array
ravel(a2) == Concat(a2)

\* df.loc[mask, 'value'] = vals, idx being the rows of the mask: raises unless
\* the rows are as many as the values
LocAssign(T, mask, idx, vals) ==
    IF Len(idx) # Len(vals) THEN Raise
    ELSE Ok([k \in 1..Len(T) |->
                IF mask[k]
                THEN [T[k] EXCEPT !.value =
                                     vals[CHOOSE a \in DOMAIN idx : idx[a] = k]]
                ELSE T[k]])

\* one turn of the loop of _3d2rec: the main grid's rows of layer l
OverwriteLayer(T, l, arr2d) ==
    LocAssign(T, [k \in 1..Len(T) |-> T[k].layer = l /\ T[k].inest = 0],
              Compress([k \in 1..Len(T) |-> k],
                       [k \in 1..Len(T) |-> T[k].layer = l /\ T[k].inest = 0]),
              ravel(arr2d))

RECURSIVE Overwrite3d(_, _, _)
\* the loop of _3d2rec from layer l on, r being the table so far
Overwrite3d(r, arr3d, l) ==
    IF r.err THEN Raise
    ELSE IF l >= Len(arr3d) THEN r
    ELSE Overwrite3d(OverwriteLayer(r.val, l, arr3d[l + 1]), arr3d, l + 1)

\* _3d2rec(arr3d): an array is [rank, a]; a rank-3 `a` is a sequence (layers)
\* of 2D arrays (a 2D array is held as the one 2D array of `a`, with rank 2)
_3d2rec(R, arr) ==
    IF arr.rank # 3 THEN Raise
    ELSE Overwrite3d(Ok(R), arr.a, 0)

----------------------------------------------------------------------------
(* The heap of record arrays *)

\* the arrays that names can refer to: the imask table, the array the caller
\* built the field from, the field's own array, and during a call the array
\* passed as argument and the array the call creates
Refs == {IMASK, "src", "own", "arg", "new"}

\* after a call: the array the field now refers to, when it is the call's new
\* array or the caller's temporary, is the field's own; arrays no name refers
\* to any more are dropped
Settle(h, d) ==
    [p \in Refs |->
        IF p = "own" THEN (IF d \in {"new", "arg"} THEN h[d]
                           ELSE IF d = "own" THEN h["own"] ELSE <<>>)
        ELSE IF p \in {"new", "arg"} THEN <<>>
        ELSE h[p]]
SettleRef(d) == IF d \in {"new", "arg"} THEN "own" ELSE d

----------------------------------------------------------------------------
(* MartheField.set_data *)

\* the `data` argument, by the type set_data dispatches on
DataStr(grids) == [kind |-> "str", grids |-> grids, p |-> NoData,
                   arr |-> [rank |-> 0, a |-> <<>>], v |-> 0]
DataList(grids) == [kind |-> "list", grids |-> grids, p |-> NoData,
                    arr |-> [rank |-> 0, a |-> <<>>], v |-> 0]
DataNum(v) == [kind |-> "num", grids |-> <<>>, p |-> NoData,
               arr |-> [rank |-> 0, a |-> <<>>], v |-> v]
DataRec(p) == [kind |-> "rec", grids |-> <<>>, p |-> p,
               arr |-> [rank |-> 0, a |-> <<>>], v |-> 0]
DataArr(arr) == [kind |-> "arr", grids |-> <<>>, p |-> NoData,
                 arr |-> arr, v |-> 0]

Raised(h, d) == [err |-> TRUE, heap |-> h, data |-> d]
Same(h, d) == [err |-> FALSE, heap |-> h, data |-> d]
Stored(h, T) == [err |-> FALSE, heap |-> [h EXCEPT !["new"] = T], data |-> "new"]

\* self.data = self.get_masked(rec), m being what get_masked yields for the
\* array p (a new array when p is NoData)
Assign(h, d, p, m) ==
    IF m.err THEN Raised(h, d)
    ELSE IF m.alias /\ p # NoData THEN Same(h, p)
    ELSE Stored(h, m.val)

\* the file name and the grid list branches (only without layer and inest):
\* read_grid_file gives the file's grids, grids2rec stacks them
SetGrids(h, d, u, f, grids, _none) ==
    IF ~_none THEN Same(h, d)
    ELSE Assign(h, d, NoData, get_masked(u, f, h[IMASK], grids2rec(grids)))

\* Mutant: the value is set on masked rows too (no masked_values)
SetNumAnyValue(h, d, v, layer, inest) ==
    IF d # NoData
    THEN Same([h EXCEPT ![d] =
                  MaskFill(h[d], get_data(h[d], layer, inest, FALSE, TRUE, {}).val, v)],
              d)
    ELSE Stored(h, MaskFill(h[IMASK],
                            get_data(h[IMASK], layer, inest, FALSE, TRUE, {}).val,
                            v))

\* the numeric branch: set the value in place on the rows get_data selects
\* with masked_values = dmv; without .data (the bare except), on a copy of
\* the imask table and the rows imask.get_data selects
SetNum(h, d, v, layer, inest) ==
    IF d # NoData
    THEN Same([h EXCEPT ![d] =
                  MaskFill(h[d], get_data(h[d], layer, inest, FALSE, TRUE, dmv).val, v)],
              d)
    ELSE Stored(h, MaskFill(h[IMASK],
                            get_data(h[IMASK], layer, inest, FALSE, TRUE, dmv).val,
                            v))

\* the recarray branch: self.data = self.get_masked(data)
SetRec(h, d, u, f, p) == Assign(h, d, p, get_masked(u, f, h[IMASK], h[p]))

\* the 3D-array branch once _3d2rec has returned r
SetArrRec(h, d, u, f, r) ==
    IF r.err THEN Raised(h, d)
    ELSE Assign(h, d, NoData, get_masked(u, f, h[IMASK], r.val))

\* the 3D-array branch (only without layer and inest): the array must be 3D
SetArr(h, d, u, f, arr, _none) ==
    IF ~_none THEN Same(h, d)
    ELSE IF arr.rank # 3 THEN Raised(h, d)
    ELSE SetArrRec(h, d, u, f, _3d2rec(h[IMASK], arr))

\* set_data(data, layer, inest) of a field (u, f) whose .data is d
set_data(h, d, u, f, dat, layer, inest) ==
    CASE dat.kind = "str" ->
            SetGrids(h, d, u, f, dat.grids, layer.none /\ inest.none)
      [] dat.kind = "list" ->
            SetGrids(h, d, u, f, dat.grids, layer.none /\ inest.none)
      [] dat.kind = "num" -> SetNum(h, d, dat.v, layer, inest)
      [] dat.kind = "rec" -> SetRec(h, d, u, f, dat.p)
      [] dat.kind = "arr" ->
            SetArr(h, d, u, f, dat.arr, layer.none /\ inest.none)

\* __init__ after set_data: maxlayer and maxnest call to_grids(inest=0) and
\* to_grids(layer=0), which must not raise
InitGridsFail(T, f) ==
    \/ to_grids(T, ArgNone, Arg(<<0>>), f).err
    \/ to_grids(T, Arg(<<0>>), ArgNone, f).err

----------------------------------------------------------------------------
(* MartheField.set_data_from_parfile *)

\* np.logical_and.reduce of the layer's mask and of the zone's mask (the
\* rows whose value in izone's table Z is z): masks of different lengths do
\* not combine
ZoneMask(mask, Z, z) ==
    IF Len(Z) # Len(mask) THEN Raise
    ELSE Ok([k \in 1..Len(mask) |-> mask[k] /\ Z[k].value = z])

\* self.data['value'][mask] = v
ParFill(T, m, v) == IF m.err THEN Raise ELSE Ok(MaskFill(T, m.val, v))

\* one (layer, zone, value) record: the rows of the layer whose value is not
\* masked and whose zone is z get the value v
ParSet(T, Z, r) ==
    ParFill(T, ZoneMask(get_data(T, Arg(<<r.l>>), ArgNone, FALSE, TRUE, dmv).val,
                        Z, r.z),
            r.v)

RECURSIVE ParLoop(_, _, _)
\* the loop over the records of a zpc file, t being the table so far
ParLoop(t, Z, recs) ==
    IF t.err THEN Raise
    ELSE IF recs = <<>> THEN t
    ELSE ParLoop(ParSet(t.val, Z, Head(recs)), Z, Tail(recs))

\* set_data_from_parfile: the file parses to a type ('zpc': any number of
\* records, 'pp': one record) and its records
set_data_from_parfile(T, Z, par) ==
    IF par.ptype = "zpc" THEN ParLoop(Ok(T), Z, par.recs)
    ELSE IF par.ptype = "pp" THEN ParSet(T, Z, par.recs[1])
    ELSE Ok(T)

----------------------------------------------------------------------------
(* The models and the inputs of the calls *)

\* plain (not masked) values a caller writes
Vals == 2..(1 + MaxVal)

\* cell centres of the main grid (cells of side 4) and of the nested grid
\* (cells of side 2 refining the main grid's cell (0, 0))
Centres(n) == IF n = 0 THEN [x |-> <<2, 6>>, y |-> <<6, 2>>, d |-> 4]
              ELSE [x |-> <<1, 3>>, y |-> <<7, 5>>, d |-> 2]

\* the grid a grid file holds for layer l, nest n with the values `array`
\* (the grid's first rows and columns when the array is smaller than 2 x 2)
MkGrid(l, n, array) ==
    MartheGrid(0, l, n, Len(array), Len(array[1]),
               Centres(n).x[1] - (Centres(n).d \div 2),
               Centres(n).y[Len(array)] - (Centres(n).d \div 2),
               [k \in 1..Len(array[1]) |-> Centres(n).d],
               [k \in 1..Len(array) |-> Centres(n).d],
               SubSeq(Centres(n).x, 1, Len(array[1])),
               SubSeq(Centres(n).y, 1, Len(array)), array, "permh")

Uniform(v) == <<<<v, v>>, <<v, v>>>>
Mixed == <<<<2, 0>>, <<3, 2>>>>

\* two models: two layers without nested grid, one layer with a nested grid
Models == {"layered", "nested"}
Blocks(r) == IF r = "layered" THEN <<[l |-> 0, n |-> 0], [l |-> 1, n |-> 0]>>
             ELSE <<[l |-> 0, n |-> 0], [l |-> 0, n |-> 1]>>

\* mm.imask.data: 1 on active cells, a masked value elsewhere
ImaskTable(r) ==
    IF r = "layered"
    THEN grids2rec(<<MkGrid(0, 0, <<<<1, 1>>, <<0, 1>>>>),
                     MkGrid(1, 0, <<<<1, 9999>>, <<-9999, 1>>>>)>>)
    ELSE grids2rec(<<MkGrid(0, 0, <<<<0, 1>>, <<1, 1>>>>),
                     MkGrid(0, 1, <<<<1, 1>>, <<1, 9999>>>>)>>)

\* izone.data for the imask table R: the zone of an active cell is 1 + its
\* column
Zones(R) ==
    [k \in 1..Len(R) |->
        IF R[k].value \in dmv THEN R[k] ELSE [R[k] EXCEPT !.value = 1 + R[k].j]]
IZoneTable(r) == Zones(ImaskTable(r))

\* the model's two grids with the values a1 and a2
GridPair(r, a1, a2) ==
    <<MkGrid(Blocks(r)[1].l, Blocks(r)[1].n, a1),
      MkGrid(Blocks(r)[2].l, Blocks(r)[2].n, a2)>>

\* grid lists (and grid files): the model's two grids in both orders, the
\* first grid alone, and a grid of a single row
GridLists(r) ==
    {GridPair(r, Mixed, Uniform(3)),
     <<GridPair(r, Mixed, Uniform(3))[2], GridPair(r, Mixed, Uniform(3))[1]>>,
     <<MkGrid(0, 0, Uniform(2))>>, <<MkGrid(0, 0, <<<<2, 3>>>>)>>}

\* a table without its k-th row
DropRow(T, k) == SubSeq(T, 1, k - 1) \o SubSeq(T, k + 1, Len(T))

\* record arrays a caller builds: stacked grids, and a grid with a hole
SrcRecs(r) ==
    {grids2rec(g) : g \in GridLists(r)}
        \cup {DropRow(grids2rec(<<MkGrid(0, 0, Mixed)>>), k) : k \in {2, 4}}

\* a table of two layers with a nested grid on the first layer only
PartlyNested ==
    grids2rec(<<MkGrid(0, 0, Mixed), MkGrid(1, 0, Uniform(3)),
                MkGrid(0, 1, Uniform(2))>>)

\* record arrays a caller builds a field from (and keeps)
NewRecs(r) ==
    {grids2rec(GridPair(r, Mixed, Uniform(3))),
     grids2rec(<<MkGrid(0, 0, Uniform(2))>>),
     grids2rec(<<MkGrid(0, 0, <<<<2, 3>>>>)>>)}

\* 3D arrays (layer, row, col) up to the model's layers, an array of another
\* shape and an array that is not 3D
Arrays(r) ==
    {[rank |-> 3, a |-> [k \in 1..n |-> Uniform(3)]] :
        n \in 1..(IF r = "layered" THEN 2 ELSE 1)}
        \cup {[rank |-> 3, a |-> <<Mixed>>],
              [rank |-> 3, a |-> <<<<<<2, 3>>>>>>],
              [rank |-> 2, a |-> <<Uniform(2)>>]}

NoneOrZero == {ArgNone, Arg(<<0>>)}

\* the (layer, inest) selections of a scalar set_data
Selections ==
    {[layer |-> ArgNone, inest |-> ArgNone], [layer |-> Arg(<<0>>), inest |-> ArgNone],
     [layer |-> Arg(<<1>>), inest |-> ArgNone], [layer |-> ArgNone, inest |-> Arg(<<1>>)]}

\* parameter files: records (layer, zone, value)
ParRecs == {[l |-> l, z |-> 1, v |-> 3] : l \in {0, 1}}
ParFiles ==
    {[ptype |-> "pp", recs |-> <<r>>] : r \in ParRecs}
        \cup {[ptype |-> "zpc", recs |-> s] :
                s \in UNION {[1..n -> ParRecs] : n \in 1..MaxParRecs}}

----------------------------------------------------------------------------
(* The calls *)

\* no spatial index yet, no simulated field file, no series
NoSeries == [built |-> FALSE, fields |-> <<>>, data |-> <<>>]
NoSampling == spatial_index = ArgNone
NoChasim == chasim = <<>> /\ mfs = NoSeries

Init ==
    /\ NoSampling
    /\ NoChasim
    /\ use_imask \in BOOLEAN
    /\ field \in {"permh", "IMASK"}
    /\ use_imask \/ field = "permh"
    /\ ref \in Models
    /\ heap = [p \in Refs |-> IF p = IMASK THEN ImaskTable(ref) ELSE <<>>]
    /\ data = NoData
    /\ src = NoData
    /\ built = FALSE
    /\ op = [name |-> "none"]
    /\ err = FALSE
    /\ ret = <<>>
    /\ calls = 0

\* a record array argument: the heap once the caller has built the array T
\* under the name p, and the `data` argument that refers to it
WithRec(p, T) == [h |-> [heap EXCEPT ![p] = T], dat |-> DataRec(p)]
\* an argument that is no new array
Plain(d) == [h |-> heap, dat |-> d]

OpSet(name, dat, layer, inest) ==
    [name |-> name, kind |-> dat.kind, layer |-> layer, inest |-> inest,
     v |-> dat.v, grids |-> dat.grids, rank |-> dat.arr.rank]

\* __init__ once set_data has returned r and `fail` says whether __init__
\* raises: then there is no field
NewDone(in, r, fail) ==
    /\ built' = ~fail
    /\ data' = IF fail THEN NoData ELSE SettleRef(r.data)
    /\ src' = IF fail THEN NoData ELSE in.dat.p
    /\ heap' = IF fail THEN heap ELSE Settle(r.heap, r.data)
    /\ err' = fail
    /\ ret' = <<>>
    /\ op' = OpSet("__init__", in.dat, ArgNone, ArgNone)
    /\ UNCHANGED <<use_imask, field, ref, calls, spatial_index, chasim, mfs>>

NewSet(in, r) ==
    NewDone(in, r, r.err \/ InitGridsFail(r.heap[r.data], field))

\* MartheField(field, data, mm, use_imask): set_data(data), then maxlayer and
\* maxnest. The caller keeps the record array it passed
New(in) ==
    /\ ~built
    /\ NewSet(in, set_data(in.h, NoData, use_imask, field, in.dat, ArgNone, ArgNone))

SetDone(in, layer, inest, r) ==
    /\ data' = SettleRef(r.data)
    /\ heap' = Settle(r.heap, r.data)
    /\ err' = r.err
    /\ ret' = <<>>
    /\ op' = OpSet("set_data", in.dat, layer, inest)
    /\ calls' = calls + 1
    /\ UNCHANGED <<use_imask, field, ref, built, src, spatial_index, chasim, mfs>>

\* mf.set_data(data, layer, inest) on the field; a record array built for
\* the call is the caller's temporary
Call_set_data(in, layer, inest) ==
    /\ built
    /\ calls < MaxCalls
    /\ SetDone(in, layer, inest,
               set_data(in.h, data, use_imask, field, in.dat, layer, inest))

ParDone(r) ==
    /\ heap' = IF r.err THEN heap ELSE [heap EXCEPT ![data] = r.val]
    /\ err' = r.err
    /\ ret' = <<>>
    /\ op' = [name |-> "set_data_from_parfile"]
    /\ calls' = calls + 1
    /\ UNCHANGED <<use_imask, field, ref, built, src, data, spatial_index, chasim,
                   mfs>>

\* mf.set_data_from_parfile(parfile, izone)
Call_set_data_from_parfile(par) ==
    /\ built
    /\ calls < MaxCalls
    /\ ParDone(set_data_from_parfile(heap[data], IZoneTable(ref), par))

Construct ==
    \/ \E T \in NewRecs(ref) : New(WithRec("src", T))
    \/ New(Plain(DataRec(IMASK)))
    \/ \E g \in GridLists(ref) : New(Plain(DataStr(g)))
    \/ \E g \in GridLists(ref) : New(Plain(DataList(g)))
    \/ \E v \in {0} \cup Vals : New(Plain(DataNum(v)))
    \/ \E a \in Arrays(ref) : New(Plain(DataArr(a)))

\* with a layer or a nest, a file name, a grid list or an array is one of
\* the inputs, since the call then does not read it
SetDataFile ==
    \/ \E g \in GridLists(ref) : Call_set_data(Plain(DataStr(g)), ArgNone, ArgNone)
    \/ Call_set_data(Plain(DataStr(GridPair(ref, Mixed, Uniform(3)))),
                     Arg(<<0>>), ArgNone)

SetDataGrids ==
    \/ \E g \in GridLists(ref) : Call_set_data(Plain(DataList(g)), ArgNone, ArgNone)
    \/ Call_set_data(Plain(DataList(GridPair(ref, Mixed, Uniform(3)))),
                     Arg(<<0>>), ArgNone)

SetDataScalar ==
    \E v \in {0} \cup Vals, sel \in Selections :
        Call_set_data(Plain(DataNum(v)), sel.layer, sel.inest)

SetDataRecarray ==
    \/ \E T \in SrcRecs(ref), layer \in NoneOrZero :
            Call_set_data(WithRec("arg", T), layer, ArgNone)
    \/ Call_set_data(Plain(DataRec(IMASK)), ArgNone, ArgNone)
    \/ src # NoData /\ Call_set_data(Plain(DataRec(src)), ArgNone, ArgNone)

SetDataArray ==
    \/ \E a \in Arrays(ref) : Call_set_data(Plain(DataArr(a)), ArgNone, ArgNone)
    \/ Call_set_data(Plain(DataArr([rank |-> 2, a |-> <<Uniform(2)>>])),
                     ArgNone, Arg(<<0>>))

SetDataFromParfile == \E par \in ParFiles : Call_set_data_from_parfile(par)

Next ==
    \/ Construct
    \/ SetDataFile
    \/ SetDataGrids
    \/ SetDataScalar
    \/ SetDataRecarray
    \/ SetDataArray
    \/ SetDataFromParfile

Spec == Init /\ [][Next]_vars

----------------------------------------------------------------------------
(* Queries on a field: get_data, get_masked, to_grids, grids2rec *)

\* np.lib.recfunctions.stack_arrays needs one array at least
grids2rec_ok(grids) == grids # <<>>

\* a field as construction or set_data(recarray) leaves it: its table is what
\* get_masked yields for a record array a caller builds
InitQ ==
    /\ NoSampling
    /\ NoChasim
    /\ use_imask \in BOOLEAN
    /\ field \in {"permh", "IMASK"}
    /\ use_imask \/ field = "permh"
    /\ ref \in Models
    /\ \E T \in SrcRecs(ref) \cup {PartlyNested} :
          /\ ~get_masked(use_imask, field, ImaskTable(ref), T).err
          /\ heap = [p \in Refs |->
                        IF p = IMASK THEN ImaskTable(ref)
                        ELSE IF p = "own"
                        THEN get_masked(use_imask, field, ImaskTable(ref), T).val
                        ELSE <<>>]
    /\ data = "own"
    /\ src = NoData
    /\ built = TRUE
    /\ op = [name |-> "none"]
    /\ err = FALSE
    /\ ret = <<>>
    /\ calls = 0

\* a query returns r and changes nothing
Returned(o, r) ==
    /\ op' = o
    /\ err' = r.err
    /\ ret' = r.val
    /\ UNCHANGED <<use_imask, field, ref, heap, data, src, built, calls,
                   spatial_index, chasim, mfs>>

QLayers == {ArgNone, Arg(<<0>>), Arg(<<1>>), Arg(<<1, 0>>)}
QInests == {ArgNone, Arg(<<0>>), Arg(<<1>>)}

\* mf.get_data(layer, inest, as_array, as_mask, masked_values)
Call_get_data(layer, inest, as_array, as_mask, mv) ==
    /\ built
    /\ Returned([name |-> "get_data", layer |-> layer, inest |-> inest,
                 as_array |-> as_array, as_mask |-> as_mask, mv |-> mv],
                get_data(heap[data], layer, inest, as_array, as_mask, mv))

GetData ==
    \E layer \in QLayers, inest \in QInests, as_array \in BOOLEAN,
       as_mask \in BOOLEAN, mv \in {{}, dmv} :
        Call_get_data(layer, inest, as_array, as_mask, mv)

\* mf.get_masked(rec)
Call_get_masked(rec, again) ==
    /\ built
    /\ Returned([name |-> "get_masked", arg |-> rec, again |-> again],
                get_masked(use_imask, field, heap[IMASK], rec))

\* on a record array a caller builds, and on the field's own table
GetMasked ==
    \/ \E T \in SrcRecs(ref) : Call_get_masked(T, FALSE)
    \/ Call_get_masked(heap[data], FALSE)

\* mf.get_masked(mf.get_masked(rec)): on what get_masked has just returned
GetMaskedAgain ==
    /\ op.name = "get_masked"
    /\ ~err
    /\ ~op.again
    /\ Call_get_masked(ret, TRUE)

\* mf.to_grids(layer, inest)
Call_to_grids(layer, inest) ==
    /\ built
    /\ Returned([name |-> "to_grids", layer |-> layer, inest |-> inest],
                to_grids(heap[data], layer, inest, field))

ToGrids == \E layer \in QLayers, inest \in QInests : Call_to_grids(layer, inest)

\* MartheField.grids2rec(mf.to_grids(layer, inest)): on the grids to_grids
\* has just returned
Grids2rec ==
    /\ op.name = "to_grids"
    /\ ~err
    /\ Returned([name |-> "grids2rec", layer |-> op.layer, inest |-> op.inest],
                IF grids2rec_ok(ret) THEN Ok(grids2rec(ret)) ELSE Raise)

NextQ ==
    \/ GetData
    \/ GetMasked
    \/ GetMaskedAgain
    \/ ToGrids
    \/ Grids2rec

SpecQ == InitQ /\ [][NextQ]_vars

----------------------------------------------------------------------------
(* The model's spatial index and MartheField.sample *)

\* mm.build_spatial_index(): one entry per cell of the model, in the order of
\* the rows of mm.imask.data: the node (row number), the layer and the value
\* of the cell under the cell's footprint
build_spatial_index(R) ==
    [k \in 1..Len(R) |->
        [node |-> k - 1, layer |-> R[k].layer,
         xmin |-> R[k].x - (Centres(R[k].inest).d \div 2),
         xmax |-> R[k].x + (Centres(R[k].inest).d \div 2),
         ymin |-> R[k].y - (Centres(R[k].inest).d \div 2),
         ymax |-> R[k].y + (Centres(R[k].inest).d \div 2),
         value |-> R[k].value]]

\* spatial_index.intersection((x, y), objects='raw'): the entries whose
\* footprint holds the point, borders included
intersection(index, x, y) ==
    SelectSeq(index, LAMBDA e : /\ e.xmin <= x /\ x <= e.xmax
                                /\ e.ymin <= y /\ y <= e.ymax)

\* a single layer is repeated for several points
BroadcastLayer(_x, _layer) ==
    IF Len(_layer) = 1 /\ Len(_x) > 1 THEN [k \in 1..Len(_x) |-> _layer[1]]
    ELSE _layer

\* the assertion on the lengths of x, y and layer
LengthsAgree(_x, _y, _layer) == Len(_x) = Len(_y) /\ Len(_y) = Len(_layer)

\* Mutant: a hit is kept whatever its layer
KeptNodes_any_layer(hits, ilay, mv) ==
    Col(SelectSeq(hits, LAMBDA hit : hit.value \notin mv), "node")

\* the nodes of the hits kept for one point: those of the point's layer whose
\* value is not masked
KeptNodes(hits, ilay, mv) ==
    Col(SelectSeq(hits, LAMBDA hit : hit.layer = ilay /\ hit.value \notin mv),
        "node")

\* the loop over the points: idx, the nodes of all hits kept
SampleIdx(index, _x, _y, _layer, mv) ==
    Concat([k \in 1..Len(_x) |->
               KeptNodes(intersection(index, _x[k], _y[k]), _layer[k], mv)])

\* Mutant: the nodes are taken as row numbers that start at 1
MaskOfIdx_one_based(T, idx) ==
    IF \E k \in DOMAIN idx : idx[k] >= Len(T) THEN Raise
    ELSE Ok([k \in 1..Len(T) |-> isin(k, idx)])

\* mask = np.zeros(len(data)); mask[idx] = True: raises when a node is not a
\* row of the table
MaskOfIdx(T, idx) ==
    IF \E k \in DOMAIN idx : idx[k] >= Len(T) THEN Raise
    ELSE Ok([k \in 1..Len(T) |-> isin(k - 1, idx)])

\* what sample returns and what it did with the model's spatial index:
\* `index` is mm.spatial_index afterwards, `events` the calls on the model
Sampled(r, index, events) ==
    [err |-> r.err, val |-> r.val, index |-> index, events |-> events]

\* the end of sample, once idx and the mask are known
SampleOut(T, idx, mask, as_mask, as_idx) ==
    IF mask.err THEN Raise
    ELSE IF as_idx THEN Ok(idx)
    ELSE IF as_mask THEN Ok(mask.val)
    ELSE Ok(Compress(T, mask.val))

\* sample once the lengths agree, with the index it uses
SampleWith(T, index, _x, _y, _layer, mv, as_mask, as_idx) ==
    SampleOut(T, SampleIdx(index, _x, _y, _layer, mv),
              MaskOfIdx(T, SampleIdx(index, _x, _y, _layer, mv)),
              as_mask, as_idx)

\* Mutant: the index is built by every sample
SampleChecked_rebuilding(T, si, R, _x, _y, _layer, mv, as_mask, as_idx) ==
    IF ~LengthsAgree(_x, _y, _layer) THEN Sampled(Raise, si, <<>>)
    ELSE Sampled(SampleWith(T, build_spatial_index(R), _x, _y, _layer, mv,
                            as_mask, as_idx),
                 Arg(build_spatial_index(R)),
                 <<"build_spatial_index">>
                     \o [k \in 1..Len(_x) |-> "intersection"])

\* Mutant: the lengths are not compared, the points are zipped
SampleChecked_zipping(T, si, R, _x, _y, _layer, mv, as_mask, as_idx) ==
    Sampled(SampleWith(T, IF si.none THEN build_spatial_index(R) ELSE si.v,
                       SubSeq(_x, 1, Min({Len(_x), Len(_y), Len(_layer)})),
                       _y, _layer, mv, as_mask, as_idx),
            IF si.none THEN Arg(build_spatial_index(R)) ELSE si,
            (IF si.none THEN <<"build_spatial_index">> ELSE <<>>)
                \o [k \in 1..Min({Len(_x), Len(_y), Len(_layer)}) |->
                       "intersection"])

\* sample from the assertion on: si is mm.spatial_index, R is mm.imask.data
SampleChecked(T, si, R, _x, _y, _layer, mv, as_mask, as_idx) ==
    IF ~LengthsAgree(_x, _y, _layer) THEN Sampled(Raise, si, <<>>)
    ELSE Sampled(SampleWith(T, IF si.none THEN build_spatial_index(R) ELSE si.v,
                            _x, _y, _layer, mv, as_mask, as_idx),
                 IF si.none THEN Arg(build_spatial_index(R)) ELSE si,
                 (IF si.none THEN <<"build_spatial_index">> ELSE <<>>)
                     \o [k \in 1..Len(_x) |-> "intersection"])

\* mv: no value for None
MaskedValues(masked_values) ==
    IF masked_values.none THEN {} ELSE masked_values.v

\* mf.sample(x, y, layer, masked_values, as_mask, as_idx)
sample(T, si, R, x, y, layer, masked_values, as_mask, as_idx) ==
    SampleChecked(T, si, R, make_iterable(x), make_iterable(y),
                  BroadcastLayer(make_iterable(x), make_iterable(layer)),
                  MaskedValues(masked_values), as_mask, as_idx)

----------------------------------------------------------------------------
(* MartheField.get_xyvertices and zonal_stats *)

RECURSIVE SumSeq(_)
SumSeq(q) == IF q = <<>> THEN 0 ELSE q[1] + SumSeq(Tail(q))

\* MartheGrid.xvertices and yvertices: the borders of the columns from xl
\* and of the rows from yl
xvertices(mg) == [k \in 1..(mg.ncol + 1) |-> mg.xl + SumSeq(SubSeq(mg.dx, 1, k - 1))]
yvertices(mg) ==
    [k \in 1..(mg.nrow + 1) |-> mg.yl + SumSeq(SubSeq(np_flip(mg.dy), 1, k - 1))]

\* np.meshgrid(xvertices, yvertices), ravelled: the vertices [x, y] of a grid
GridVertices(mg) ==
    [k \in 1..((mg.ncol + 1) * (mg.nrow + 1)) |->
        [x |-> xvertices(mg)[((k - 1) % (mg.ncol + 1)) + 1],
         y |-> yvertices(mg)[((k - 1) \div (mg.ncol + 1)) + 1]]]

VerticesOf(grids) ==
    IF grids.err THEN Raise
    ELSE Ok(Concat([g \in 1..Len(grids.val) |-> GridVertices(grids.val[g])]))

\* get_xyvertices(): the vertices of the grids of the first layer
get_xyvertices(T, fld) == VerticesOf(to_grids(T, Arg(<<0>>), ArgNone, fld))

\* polygons are rectangles [x0, y0, x1, y1]; a rectangle without area is a
\* single-point polygon. shp_utils.point_in_polygon: the mask of the points
\* strictly inside
point_in_polygon(v, p) ==
    [k \in 1..Len(v) |-> /\ p.x0 < v[k].x /\ v[k].x < p.x1
                         /\ p.y0 < v[k].y /\ v[k].y < p.y1]

\* transformations and statistics by name
KnownTrans == {"none", "abs"}
KnownStats == {"count", "min", "max"}

\* pest_utils.check_trans(trans) raises on a name that is no transformation
check_trans_ok(trans) == trans \in KnownTrans

\* Series.transform(trans) with a name: a method of the Series or a numpy
\* function of that name, and 'none' is neither
transform_ok(trans) == trans = "abs"
transform(rows, trans) == [k \in 1..Len(rows) |-> [rows[k] EXCEPT !.value = Abs(@)]]

\* DataFrame.drop_duplicates(): the first occurrence of every row
RECURSIVE drop_duplicates(_)
drop_duplicates(rows) ==
    IF rows = <<>> THEN <<>>
    ELSE LET init == drop_duplicates(SubSeq(rows, 1, Len(rows) - 1))
         IN  IF isin(rows[Len(rows)], init) THEN init
             ELSE Append(init, rows[Len(rows)])

\* one statistic of the values
Stat(name, values) ==
    CASE name = "count" -> Len(values)
      [] name = "min" -> Min({values[k] : k \in DOMAIN values})
      [] name = "max" -> Max({values[k] : k \in DOMAIN values})

\* df.groupby(['zone', 'layer'])['value'].agg(_stats): one row for every
\* layer of the zone's rows; a name that is no statistic raises
Aggregated(zone, rows, _stats) ==
    IF \E k \in DOMAIN _stats : _stats[k] \notin KnownStats THEN Raise
    ELSE Ok([g \in 1..Len(np_unique(Col(rows, "layer"))) |->
               [zone |-> zone, layer |-> np_unique(Col(rows, "layer"))[g],
                stats |-> [k \in 1..Len(_stats) |->
                              Stat(_stats[k],
                                   Col(SelectSeq(rows, LAMBDA r :
                                           r.layer = np_unique(Col(rows, "layer"))[g]),
                                       "value"))]]])

\* the state of the loops of zonal_stats: whether it has raised, the zones'
\* statistics so far, mm.spatial_index and the work done so far
ZState(e, dfs, index, events) ==
    [err |-> e, val |-> dfs, index |-> index, events |-> events]

RECURSIVE SampleLayers(_, _, _, _, _, _)
\* the samples of one zone, layer after layer from the k-th on: st.val is
\* the list of their rows
SampleLayers(st, T, R, pts, _layer, k) ==
    IF st.err \/ k > Len(_layer) THEN st
    ELSE LET r == sample(T, st.index, R, Arg(Col(pts, "x")), Arg(Col(pts, "y")),
                         Arg(<<_layer[k]>>), Arg(dmv), FALSE, FALSE)
         IN  SampleLayers(ZState(r.err, Append(st.val, r.val), r.index,
                                 st.events \o <<"sample">> \o r.events),
                          T, R, pts, _layer, k + 1)

\* the end of one turn of the loop over the polygons: stack the samples,
\* drop the duplicates, transform, aggregate
ZoneStats(dfs, zone, smp, _stats, trans) ==
    IF smp.err \/ smp.val = <<>> THEN ZState(TRUE, <<>>, smp.index, smp.events)
    ELSE IF ~transform_ok(trans)
    THEN ZState(TRUE, <<>>, smp.index, smp.events \o <<"transform">>)
    ELSE LET agg == Aggregated(zone, transform(drop_duplicates(Concat(smp.val)),
                                               trans), _stats)
         IN  ZState(agg.err, IF agg.err THEN <<>> ELSE Append(dfs, agg.val),
                    smp.index, smp.events \o <<"transform", "agg">>)

RECURSIVE ZoneLoop(_, _, _, _, _, _, _, _, _)
\* the loop over the polygons from the k-th on
ZoneLoop(st, T, R, v, polygons, _layer, _stats, trans, k) ==
    IF st.err \/ k > Len(polygons) THEN st
    ELSE ZoneLoop(
            ZoneStats(st.val, k - 1,
                      SampleLayers(ZState(FALSE, <<>>, st.index,
                                          st.events \o <<"point_in_polygon">>),
                                   T, R,
                                   Compress(v, point_in_polygon(v, polygons[k])),
                                   _layer, 1),
                      _stats, trans),
            T, R, v, polygons, _layer, _stats, trans, k + 1)

\* pd.concat(dfs) raises when there is nothing to concatenate
Concatenated(st) ==
    IF st.err \/ st.val = <<>> THEN ZState(TRUE, <<>>, st.index, st.events)
    ELSE st

ZonalOver(T, si, R, v, _stats, polygons, _layer, trans) ==
    IF v.err THEN ZState(TRUE, <<>>, si, <<>>)
    ELSE Concatenated(ZoneLoop(ZState(FALSE, <<>>, si, <<>>), T, R, v.val,
                               polygons, _layer, _stats, trans, 1))

\* mf.zonal_stats(stats, polygons, layer, names=None, trans): the zones are
\* named by their number
zonal_stats(T, si, R, fld, stats, polygons, layer, trans) ==
    IF ~check_trans_ok(trans) THEN ZState(TRUE, <<>>, si, <<>>)
    ELSE ZonalOver(T, si, R, get_xyvertices(T, fld), make_iterable(stats),
                   polygons, Layers(T, layer), trans)

----------------------------------------------------------------------------
(* Calls of sample and zonal_stats on a field *)

\* the grids of the sampled field: the model's grids for a domain-bound
\* field, one grid of the main grid's cells for an independent field
SampledGrids(r, u) ==
    IF u THEN {GridPair(r, Mixed, Uniform(3))}
    ELSE {<<MkGrid(0, 0, Uniform(2))>>, <<MkGrid(0, 0, <<<<2, 3>>>>)>>}

\* a built field on a model whose spatial index is not built yet: a
\* domain-bound field, or an independent field with a table of its own
InitS ==
    /\ NoSampling
    /\ NoChasim
    /\ use_imask \in BOOLEAN
    /\ field = "permh"
    /\ ref \in Models
    /\ \E g \in SampledGrids(ref, use_imask) :
          heap = [p \in Refs |->
                     IF p = IMASK THEN ImaskTable(ref)
                     ELSE IF p = "own"
                     THEN get_masked(use_imask, field, ImaskTable(ref),
                                     grids2rec(g)).val
                     ELSE <<>>]
    /\ data = "own"
    /\ src = NoData
    /\ built = TRUE
    /\ op = [name |-> "none"]
    /\ err = FALSE
    /\ ret = <<>>
    /\ calls = 0

\* a call that uses the model's spatial index returns r
Indexed(o, r) ==
    /\ op' = o
    /\ err' = r.err
    /\ ret' = r.val
    /\ spatial_index' = r.index
    /\ calls' = calls + 1
    /\ UNCHANGED <<use_imask, field, ref, heap, data, src, built, chasim, mfs>>

SampleDone(x, y, layer, masked_values, as_mask, as_idx, r) ==
    Indexed([name |-> "sample", x |-> x, y |-> y, layer |-> layer,
             masked_values |-> masked_values, as_mask |-> as_mask,
             as_idx |-> as_idx, events |-> r.events], r)

\* mf.sample(x, y, layer, masked_values, as_mask, as_idx)
Call_sample(x, y, layer, masked_values, as_mask, as_idx) ==
    /\ built
    /\ calls < MaxCalls
    /\ SampleDone(x, y, layer, masked_values, as_mask, as_idx,
                  sample(heap[data], spatial_index, heap[IMASK], x, y, layer,
                         masked_values, as_mask, as_idx))

\* points: the centre of the main grid's cell (0, 0), the corner that the
\* four cells of the main grid share, a point outside the grid
SamplePoints ==
    {<<>>, <<[x |-> 2, y |-> 6]>>, <<[x |-> 4, y |-> 4]>>,
     <<[x |-> 2, y |-> 6], [x |-> 4, y |-> 4]>>,
     <<[x |-> 4, y |-> 4], [x |-> 9, y |-> 9]>>}
SampleLayerArgs == {<<0>>, <<1>>, <<0, 1>>}
SampleOutputs == {[as_mask |-> FALSE, as_idx |-> FALSE],
                  [as_mask |-> TRUE, as_idx |-> FALSE],
                  [as_mask |-> FALSE, as_idx |-> TRUE]}

\* x and y of the same points, or y without its last element
Sample ==
    \E pts \in SamplePoints, short \in {0, 1}, layer \in SampleLayerArgs,
       masked_values \in {ArgNone, Arg(dmv)}, out \in SampleOutputs :
        /\ short <= Len(pts)
        /\ Call_sample(Arg(Col(pts, "x")),
                       Arg(SubSeq(Col(pts, "y"), 1, Len(pts) - short)),
                       Arg(layer), masked_values, out.as_mask, out.as_idx)

ZonalDone(stats, polygons, layer, trans, r) ==
    Indexed([name |-> "zonal_stats", stats |-> stats, polygons |-> polygons,
             layer |-> layer, trans |-> trans, events |-> r.events], r)

\* mf.zonal_stats(stats, polygons, layer, names=None, trans)
Call_zonal_stats(stats, polygons, layer, trans) ==
    /\ built
    /\ calls < MaxCalls
    /\ ZonalDone(stats, polygons, layer, trans,
                 zonal_stats(heap[data], spatial_index, heap[IMASK], field,
                             Arg(stats), polygons, layer, trans))

\* a single-point polygon on a vertex, a rectangle around the vertices of
\* the main grid's cell (0, 0), a rectangle around the grid
PointPolygon == [x0 |-> 4, y0 |-> 4, x1 |-> 4, y1 |-> 4]
CellPolygon == [x0 |-> -1, y0 |-> 3, x1 |-> 5, y1 |-> 9]
GridPolygon == [x0 |-> -1, y0 |-> -1, x1 |-> 9, y1 |-> 9]
PolygonLists ==
    {<<>>, <<PointPolygon>>, <<CellPolygon>>, <<GridPolygon, CellPolygon>>,
     <<CellPolygon, PointPolygon>>}

\* with a transformation that is recognized, and with the default one and
\* one that is not
ZonalStats ==
    \/ \E stats \in {<<"count">>, <<"min", "max">>, <<"bogus">>},
          polygons \in PolygonLists, layer \in NoneOrZero :
            Call_zonal_stats(stats, polygons, layer, "abs")
    \/ \E polygons \in PolygonLists, trans \in {"none", "bogus"} :
            Call_zonal_stats(<<"count">>, polygons, ArgNone, trans)

NextS ==
    \/ Sample
    \/ ZonalStats

SpecS == InitS /\ [][NextS]_vars

----------------------------------------------------------------------------
(* MartheFieldSeries: the store of simulated fields *)

\* marthe_utils.get_chasim_indexer(chasim): the records (field, istep) of
\* the simulated field file, in file order
get_chasim_indexer(file) == file

RECURSIVE unique(_)
\* Series.unique(): the distinct values in order of appearance
unique(q) ==
    IF q = <<>> THEN <<>>
    ELSE LET init == unique(SubSeq(q, 1, Len(q) - 1))
         IN  IF isin(q[Len(q)], init) THEN init ELSE Append(init, q[Len(q)])

\* Mutant: every field starts with a dictionary without isteps
NewSeries_empty_dicts(file) ==
    [built |-> TRUE,
     fields |-> unique(Col(get_chasim_indexer(file), "field")),
     data |-> [f \in {get_chasim_indexer(file)[k].field :
                        k \in DOMAIN get_chasim_indexer(file)} |-> Arg(<<>>)]]

\* MartheFieldSeries(mm, chasim): the field names of the file, and no data
\* for any of them
NewSeries(file) ==
    [built |-> TRUE,
     fields |-> unique(Col(get_chasim_indexer(file), "field")),
     data |-> [f \in {get_chasim_indexer(file)[k].field :
                        k \in DOMAIN get_chasim_indexer(file)} |-> ArgNone]]

\* check_fieldname(fieldname, raise_error): None when both assertions hold,
\* (exist, loaded) without raise_error
Checked(exist, loaded, raise_error) ==
    IF raise_error THEN (IF exist /\ loaded THEN Ok(<<>>) ELSE Raise)
    ELSE Ok(<<exist, loaded>>)

check_fieldname(S, fieldname, raise_error) ==
    Checked(isin(fieldname, S.fields),
            IF isin(fieldname, S.fields) THEN ~S.data[fieldname].none ELSE FALSE,
            raise_error)

\* the isteps of the field in the file
available_isteps(file, fld) ==
    unique(Col(SelectSeq(get_chasim_indexer(file), LAMBDA r : r.field = fld),
               "istep"))

\* the isteps to load: all of them, or those asked for that the file has
RetainedIsteps(available, istep) ==
    IF istep.none THEN available
    ELSE SelectSeq(make_iterable(istep), LAMBDA i : isin(i, available))

RECURSIVE Digits(_)
\* len(str(n))
Digits(n) == IF n < 10 THEN 1 ELSE 1 + Digits(n \div 10)

\* marthe_utils.read_grid_file(chasim, start, end) for one istep of a field:
\* the grids the file holds for that istep, in file order. The file's part
\* for istep 3 ends after its first grid, and its part for istep 10 lists
\* the model's grids in the reverse order
read_grid_file(r, fld, i) ==
    IF i = 3 THEN <<GridPair(r, Uniform(2), Uniform(2))[1]>>
    ELSE IF i = 10 THEN np_flip(GridPair(r, Mixed, Uniform(3)))
    ELSE IF i % 2 = 0 THEN GridPair(r, Mixed, Uniform(3))
    ELSE GridPair(r, Uniform(3), Uniform(2))

\* np.hstack of the ravelled arrays of the grids
hstack(grids) == Concat([g \in 1..Len(grids) |-> ravel(grids[g].array)])

\* mf = deepcopy(mm.imask) with the values of the istep: a single value is
\* given to every row, else the assignment raises when the values are not as
\* many as the rows
IstepField(R, fld, i, digits, values) ==
    IF Len(values) # Len(R) /\ Len(values) # 1 THEN Raise
    ELSE Ok([istep |-> i, field |-> [name |-> fld, istep |-> i, digits |-> digits],
             data |-> [k \in 1..Len(R) |->
                         [R[k] EXCEPT !.value =
                             IF Len(values) = 1 THEN values[1] ELSE values[k]]]])

\* the loop over the isteps of the file that are retained, in ascending
\* order: mf_dic
LoadedIsteps(R, r, fld, isteps, digits) ==
    Gather([k \in 1..Len(isteps) |->
               IstepField(R, fld, isteps[k], digits,
                          hstack(read_grid_file(r, fld, isteps[k])))])

\* what load_field does: whether it raises, the store afterwards and the
\* isteps whose grids it has read from the file
Loaded(e, S, reads) == [err |-> e, store |-> S, reads |-> reads]

\* Mutant: the table of an istep is stored as soon as it is made, so that a
\* load that raises leaves the tables made before the istep that failed
LoadRetained_storing_each(S, R, r, fld, isteps) ==
    IF isteps = <<>> THEN Loaded(TRUE, S, <<>>)
    ELSE IF LoadedIsteps(R, r, fld, np_unique(isteps),
                         Digits(Max({isteps[k] : k \in DOMAIN isteps}))).err
    THEN Loaded(TRUE,
                [S EXCEPT !.data[fld] =
                    Arg(LoadedIsteps(R, r, fld,
                                     SelectSeq(np_unique(isteps),
                                               LAMBDA i : ~IstepField(R, fld, i, 1,
                                                   hstack(read_grid_file(r, fld, i))).err),
                                     Digits(Max({isteps[k] : k \in DOMAIN isteps}))).val)],
                np_unique(isteps))
    ELSE Loaded(FALSE,
                [S EXCEPT !.data[fld] =
                    Arg(LoadedIsteps(R, r, fld, np_unique(isteps),
                                     Digits(Max({isteps[k] : k \in DOMAIN isteps}))).val)],
                np_unique(isteps))

\* Mutant: the tables are kept in the order the isteps were asked for
LoadRetained_as_asked(S, R, r, fld, isteps) ==
    IF isteps = <<>> THEN Loaded(TRUE, S, <<>>)
    ELSE IF LoadedIsteps(R, r, fld, isteps,
                         Digits(Max({isteps[k] : k \in DOMAIN isteps}))).err
    THEN Loaded(TRUE, S, isteps)
    ELSE Loaded(FALSE,
                [S EXCEPT !.data[fld] =
                    Arg(LoadedIsteps(R, r, fld, isteps,
                                     Digits(Max({isteps[k] : k \in DOMAIN isteps}))).val)],
                isteps)

\* load_field once the isteps are retained: np.max raises when there is
\* none, and the tables are stored once all of them are made
LoadRetained(S, R, r, fld, isteps) ==
    IF isteps = <<>> THEN Loaded(TRUE, S, <<>>)
    ELSE IF LoadedIsteps(R, r, fld, np_unique(isteps),
                         Digits(Max({isteps[k] : k \in DOMAIN isteps}))).err
    THEN Loaded(TRUE, S, np_unique(isteps))
    ELSE Loaded(FALSE,
                [S EXCEPT !.data[fld] =
                    Arg(LoadedIsteps(R, r, fld, np_unique(isteps),
                                     Digits(Max({isteps[k] : k \in DOMAIN isteps}))).val)],
                np_unique(isteps))

\* Mutant: a field that is not in the file is loaded as a field without
\* isteps
load_field_unchecked(S, file, R, r, fld, istep) ==
    IF ~check_fieldname(S, fld, FALSE).val[1]
    THEN Loaded(FALSE, [S EXCEPT !.fields = Append(@, fld)], <<>>)
    ELSE LoadRetained(S, R, r, fld,
                      RetainedIsteps(available_isteps(file, fld), istep))

\* mfs.load_field(field, istep)
load_field(S, file, R, r, fld, istep) ==
    IF ~check_fieldname(S, fld, FALSE).val[1] THEN Loaded(TRUE, S, <<>>)
    ELSE LoadRetained(S, R, r, fld,
                      RetainedIsteps(available_isteps(file, fld), istep))

\* q[::2]; the default of masked_values in get_tseries is dmv[::2], dmv
\* being the list of its values in ascending order
EveryOther(q) == [k \in 1..((Len(q) + 1) \div 2) |-> q[2 * k - 1]]

\* the message of the assertion of check_fieldname(fieldname) that fails:
\* the one on the existence of the field comes first
FailedAssertion(S, fieldname) ==
    IF ~isin(fieldname, S.fields) THEN "ex_msg"
    ELSE IF S.data[fieldname].none THEN "load_msg"
    ELSE ""

\* mm.get_node(x, y, layer): the nodes of the cells of the domain reference
\* that hold the points, found with the model's spatial index as sample
\* finds them
get_node(si, R, _x, _y, _layer) ==
    sample(R, si, R, Arg(_x), Arg(_y), Arg(_layer), ArgNone, FALSE, TRUE)

\* mm.mldates[istep]: the date of a time step
mldates(istep) == 100 + istep

\* mm.query_grid(node, target=['i','j','layer']) + base
query_grid(R, node, base) ==
    <<R[node + 1].i + base, R[node + 1].j + base, R[node + 1].layer + base>>

\* pd.DataFrame.from_records of the values on the nodes, one record per
\* istep in the order of the dictionary
from_records(mf_dic, nodes) ==
    [k \in 1..Len(mf_dic) |->
        [n \in 1..Len(nodes) |-> mf_dic[k].data[nodes[n] + 1].value]]

\* df.columns: names built from the nodes, or the names given, which must
\* be as many as the columns
Columns(R, nodes, names, base) ==
    IF names.none
    THEN Ok([n \in 1..Len(nodes) |->
                [name |-> "", ijk |-> query_grid(R, nodes[n], base)]])
    ELSE IF Len(make_iterable(names)) # Len(nodes) THEN Raise
    ELSE Ok([n \in 1..Len(nodes) |->
                [name |-> make_iterable(names)[n], ijk |-> <<>>]])

\* df.replace(masked_values, np.nan)
replace(values, mv) ==
    [k \in 1..Len(values) |->
        [n \in 1..Len(values[k]) |->
            IF isin(values[k][n], mv) THEN [nan |-> TRUE, v |-> 0]
            ELSE [nan |-> FALSE, v |-> values[k][n]]]]

\* the index of the rows: (istep, date), without the level dropped
RowIndex(mf_dic, index) ==
    [k \in 1..Len(mf_dic) |->
        IF index = "date" THEN <<mldates(mf_dic[k].istep)>>
        ELSE IF index = "istep" THEN <<mf_dic[k].istep>>
        ELSE <<mf_dic[k].istep, mldates(mf_dic[k].istep)>>]

\* what get_tseries does: whether it raises, what it returns, the model's
\* spatial index afterwards, the calls it made and the check that failed
Tseries(e, val, index, events, failed) ==
    [err |-> e, val |-> val, index |-> index, events |-> events,
     failed |-> failed]

\* get_tseries once the nodes are known: None is returned for an index that
\* is none of 'date', 'istep' and 'combined'
TseriesOnNodes(mf_dic, R, nodes, names, index, mv, base, si, events) ==
    IF Columns(R, nodes, names, base).err
    THEN Tseries(TRUE, <<>>, si, events \o <<"from_records">>, "columns")
    ELSE IF index \notin {"date", "istep", "combined"}
    THEN Tseries(FALSE, <<>>, si,
                 events \o <<"from_records", "columns", "set_index">>, "")
    ELSE Tseries(FALSE,
                 [columns |-> Columns(R, nodes, names, base).val,
                  index |-> RowIndex(mf_dic, index),
                  values |-> replace(from_records(mf_dic, nodes), mv)],
                 si, events \o <<"from_records", "columns", "set_index">>, "")

\* get_tseries from the call of get_node on: nd is what get_node did
TseriesChecked(mf_dic, R, nd, names, index, mv, base) ==
    IF nd.err THEN Tseries(TRUE, <<>>, nd.index, nd.events, "get_node")
    ELSE TseriesOnNodes(mf_dic, R, nd.val, names, index, mv, base, nd.index,
                        nd.events)

\* Mutant: a field without data gives a table without rows
get_tseries_unchecked(S, si, R, fld, x, y, layer, names, index, masked_values, base) ==
    TseriesChecked(IF isin(fld, S.fields) /\ ~S.data[fld].none
                   THEN S.data[fld].v ELSE <<>>,
                   R,
                   get_node(si, R, make_iterable(x), make_iterable(y),
                            BroadcastLayer(make_iterable(x), make_iterable(layer))),
                   names, index,
                   IF masked_values.none THEN EveryOther(SortedSeq(dmv))
                   ELSE make_iterable(masked_values),
                   base)

\* mfs.get_tseries(field, x, y, layer, names, index, masked_values, base):
\* masked_values is [none |-> TRUE] when the argument is left out
get_tseries(S, si, R, fld, x, y, layer, names, index, masked_values, base) ==
    IF check_fieldname(S, fld, TRUE).err
    THEN Tseries(TRUE, <<>>, si, <<>>, FailedAssertion(S, fld))
    ELSE TseriesChecked(S.data[fld].v, R,
                        get_node(si, R, make_iterable(x), make_iterable(y),
                                 BroadcastLayer(make_iterable(x),
                                                make_iterable(layer))),
                        names, index,
                        IF masked_values.none THEN EveryOther(SortedSeq(dmv))
                        ELSE make_iterable(masked_values),
                        base)

----------------------------------------------------------------------------
(* Calls on a MartheFieldSeries *)

\* simulated field files: records (field, istep) in file order
ChasimFiles ==
    {<<[field |-> "CHARGE", istep |-> 0], [field |-> "DEBIT", istep |-> 1],
       [field |-> "CHARGE", istep |-> 1], [field |-> "CHARGE", istep |-> 2]>>,
     <<[field |-> "CHARGE", istep |-> 2], [field |-> "CHARGE", istep |-> 10]>>,
     <<[field |-> "CHARGE", istep |-> 0], [field |-> "CHARGE", istep |-> 3]>>}

\* a model and a simulated field file, no series yet
InitF ==
    /\ NoSampling
    /\ chasim \in ChasimFiles
    /\ mfs = NoSeries
    /\ use_imask = TRUE
    /\ field = IMASK
    /\ ref \in Models
    /\ heap = [p \in Refs |-> IF p = IMASK THEN ImaskTable(ref) ELSE <<>>]
    /\ data = IMASK
    /\ src = NoData
    /\ built = TRUE
    /\ op = [name |-> "none"]
    /\ err = FALSE
    /\ ret = <<>>
    /\ calls = 0

\* a call on the series: the store afterwards, whether it raised and what
\* it returned
SeriesDone(o, S, e, r) ==
    /\ op' = o
    /\ mfs' = S
    /\ err' = e
    /\ ret' = r
    /\ UNCHANGED <<use_imask, field, ref, heap, data, src, built, calls,
                   spatial_index, chasim>>

\* mfs = MartheFieldSeries(mm, chasim)
SeriesNew ==
    /\ ~mfs.built
    /\ SeriesDone([name |-> "MartheFieldSeries"], NewSeries(chasim), FALSE, <<>>)

FieldNames == {"CHARGE", "DEBIT", "NOPE"}
IstepArgs == {ArgNone, Arg(<<0>>), Arg(<<1>>), Arg(<<1, 2>>), Arg(<<2, 1>>),
              Arg(<<2, 9>>), Arg(<<9>>), Arg(<<10>>)}

CheckDone(fieldname, raise_error, r) ==
    SeriesDone([name |-> "check_fieldname", field |-> fieldname,
                raise_error |-> raise_error], mfs, r.err, r.val)

\* mfs.check_fieldname(fieldname, raise_error)
CheckFieldname ==
    /\ mfs.built
    /\ \E fieldname \in FieldNames, raise_error \in BOOLEAN :
          CheckDone(fieldname, raise_error,
                    check_fieldname(mfs, fieldname, raise_error))

LoadDone(fld, istep, r) ==
    SeriesDone([name |-> "load_field", field |-> fld, istep |-> istep,
                reads |-> r.reads], r.store, r.err, <<>>)

\* mfs.load_field(field, istep)
LoadField ==
    /\ mfs.built
    /\ \E fld \in FieldNames, istep \in IstepArgs :
          LoadDone(fld, istep,
                   load_field(mfs, chasim, heap[IMASK], ref, fld, istep))

TseriesDone(fld, x, y, layer, names, index, masked_values, base, r) ==
    /\ op' = [name |-> "get_tseries", field |-> fld, x |-> x, y |-> y,
              layer |-> layer, names |-> names, index |-> index,
              masked_values |-> masked_values, base |-> base,
              events |-> r.events, failed |-> r.failed]
    /\ err' = r.err
    /\ ret' = r.val
    /\ spatial_index' = r.index
    /\ UNCHANGED <<use_imask, field, ref, heap, data, src, built, calls,
                   chasim, mfs>>

Call_get_tseries(fld, x, y, layer, names, index, masked_values, base) ==
    TseriesDone(fld, x, y, layer, names, index, masked_values, base,
                get_tseries(mfs, spatial_index, heap[IMASK], fld, x, y, layer,
                            names, index, masked_values, base))

\* the points asked for: one point, two points, two x for one y; every
\* point is inside a cell that is active on layer 0 of both models
TseriesPoints ==
    {[x |-> Arg(<<6>>), y |-> Arg(<<6>>)],
     [x |-> Arg(<<6, 6>>), y |-> Arg(<<6, 2>>)],
     [x |-> Arg(<<6, 6>>), y |-> Arg(<<6>>)]}

\* mfs.get_tseries(field, x, y, layer, names, index, masked_values, base)
GetTseries ==
    /\ mfs.built
    /\ \/ \E fld \in FieldNames, p \in TseriesPoints :
             Call_get_tseries(fld, p.x, p.y, Arg(<<0>>), ArgNone, "istep",
                              ArgNone, 0)
       \/ \E p \in TseriesPoints, layer \in {Arg(<<0>>), Arg(<<0, 0, 0>>)},
             names \in {Arg(<<"a">>), Arg(<<"a", "b">>)} :
             Call_get_tseries("CHARGE", p.x, p.y, layer, names, "date",
                              ArgNone, 1)
       \/ \E p \in TseriesPoints, index \in {"date", "istep", "combined"},
             masked_values \in {ArgNone, Arg(<<0>>), Arg(<<-9999, 0, 9999>>)} :
             Call_get_tseries("CHARGE", p.x, p.y, Arg(<<0>>), ArgNone, index,
                              masked_values, 0)

NextF ==
    \/ SeriesNew
    \/ CheckFieldname
    \/ LoadField
    \/ GetTseries

SpecF == InitF /\ [][NextF]_vars

----------------------------------------------------------------------------
(* Properties *)

Elems(q) == {q[k] : k \in DOMAIN q}
Sentinels == {-9999, 0, 9999}

Geometry(r) == [layer |-> r.layer, inest |-> r.inest, i |-> r.i, j |-> r.j,
                x |-> r.x, y |-> r.y]

\* an optional layer or nest argument admits a row's layer or nest
Admits(a, n) == a.none \/ n \in Elems(a.v)

DomainBound == use_imask /\ casefold(field) # "imask"

\* C1: a domain-bound field's table has the rows of the domain reference:
\* as many, and at every position the same layer, inest, row, col, x and y
C1_DomainBoundGeometry ==
    (DomainBound /\ data # NoData) =>
        /\ Len(heap[data]) = Len(heap[IMASK])
        /\ \A k \in 1..Len(heap[data]) :
              Geometry(heap[data][k]) = Geometry(heap[IMASK][k])

\* a domain-bound field after set_data_from_parfile and another call, with
\* values that are not the reference's
C1_Witness ==
    /\ DomainBound
    /\ built
    /\ calls >= 2
    /\ op.name = "set_data_from_parfile"
    /\ ~err
    /\ \E k \in 1..Len(heap[data]) : heap[data][k].value = 3
    /\ \E k \in 1..Len(heap[data]) : heap[data][k].value = 2

CellValues(T) ==
    {[layer |-> T[k].layer, inest |-> T[k].inest, i |-> T[k].i, j |-> T[k].j,
      value |-> T[k].value] : k \in DOMAIN T}

\* C2: the table built from a grid list gives every cell the value it gets
\* when the same grids are supplied in the reverse order
C2_GridOrderIrrelevant ==
    (/\ op.name \in {"__init__", "set_data"}
     /\ op.kind = "list"
     /\ op.layer.none /\ op.inest.none
     /\ ~err) =>
        CellValues(heap[data]) =
            CellValues(get_masked(use_imask, field, heap[IMASK],
                                  grids2rec(np_flip(op.grids))).val)

\* C3: get_masked on a domain-bound field returns the reference's rows with
\* the input's value where the reference's value is no sentinel and the
\* reference's sentinel elsewhere (it raises when the input has not as many
\* rows as the reference); otherwise it returns the input
C3_MaskedValues ==
    (op.name = "get_masked") =>
        IF DomainBound
        THEN /\ err <=> Len(op.arg) # Len(heap[IMASK])
             /\ ~err =>
                  /\ Len(ret) = Len(heap[IMASK])
                  /\ \A k \in 1..Len(ret) :
                        ret[k] = [heap[IMASK][k] EXCEPT !.value =
                                     IF heap[IMASK][k].value \notin Sentinels
                                     THEN op.arg[k].value
                                     ELSE heap[IMASK][k].value]
        ELSE ~err /\ ret = op.arg

\* get_masked has replaced a value by a sentinel and kept another
C3_Witness ==
    /\ op.name = "get_masked"
    /\ DomainBound
    /\ ~err
    /\ \E k \in 1..Len(ret) : ret[k].value \in Sentinels /\ op.arg[k].value = 3
    /\ \E k \in 1..Len(ret) : ret[k].value = 2

\* C4: get_masked applied to what get_masked returned returns it again
C4_MaskingIdempotent ==
    (op.name = "get_masked" /\ op.again) => (~err /\ ret = op.arg)

\* a second get_masked on a domain-bound field, the first one having changed
\* its input
C4_Witness ==
    /\ op.name = "get_masked"
    /\ op.again
    /\ DomainBound
    /\ \E k \in 1..Len(ret) : ret[k].value \in Sentinels
    /\ \E k \in 1..Len(ret) : ret[k].value = 3

\* C5: a scalar set_data or a set_data_from_parfile on the field changes
\* neither the domain reference's table nor the record array the field was
\* built from
C5_NoAliasing ==
    [][(\/ op'.name = "set_data" /\ op'.kind = "num"
        \/ op'.name = "set_data_from_parfile") =>
            /\ heap'[IMASK] = heap[IMASK]
            /\ src # NoData => heap'[src] = heap[src]]_vars

\* the rows of the table after a scalar set_data(v, layer, inest) on the
\* table T: v on the selected rows whose own value is no sentinel
ScalarOnOwnValues(T, o) ==
    [k \in 1..Len(T) |->
        IF /\ Admits(o.layer, T[k].layer)
           /\ Admits(o.inest, T[k].inest)
           /\ T[k].value \notin Sentinels
        THEN [T[k] EXCEPT !.value = o.v]
        ELSE T[k]]

Selects(o, r) ==
    /\ Admits(o.layer, r.layer)
    /\ Admits(o.inest, r.inest)
    /\ r.value \notin o.mv

\* C7: get_data selects the rows whose layer and nest are among the given
\* ones (all of them by default) and whose value is not excluded: as_mask
\* gives the boolean vector of the table's length that is true on them,
\* neither as_mask nor as_array gives them in table order; the table is left
\* as it is
C7_GetDataSelects ==
    [][(op'.name = "get_data" /\ (op'.as_mask \/ ~op'.as_array)) =>
          /\ ~err'
          /\ data' = data
          /\ heap' = heap
          /\ IF op'.as_mask
             THEN /\ Len(ret') = Len(heap[data])
                  /\ \A k \in 1..Len(ret') :
                        ret'[k] = Selects(op', heap[data][k])
             ELSE ret' = SelectSeq(heap[data], LAMBDA r : Selects(op', r))]_vars

\* a get_data that has left out a row for its layer and another for its value
C7_Witness ==
    /\ op.name = "get_data"
    /\ ~op.as_mask /\ ~op.as_array
    /\ ~op.layer.none
    /\ Len(ret) > 0
    /\ \E k \in 1..Len(heap[data]) :
          /\ ~Admits(op.layer, heap[data][k].layer)
          /\ heap[data][k].value \notin op.mv
    /\ \E k \in 1..Len(heap[data]) :
          /\ Admits(op.layer, heap[data][k].layer)
          /\ Admits(op.inest, heap[data][k].inest)
          /\ heap[data][k].value \in op.mv

\* the (row, col) of the table's rows of layer l and nest n
GroupCells(T, l, n) ==
    {<<T[k].i, T[k].j>> : k \in {a \in DOMAIN T : T[a].layer = l /\ T[a].inest = n}}

\* the group lacks a (row, col) of the rectangle 0..max(row) x 0..max(col)
HasHole(T, l, n) ==
    /\ GroupCells(T, l, n) # {}
    /\ \E i \in 0..Max({c[1] : c \in GroupCells(T, l, n)}),
          j \in 0..Max({c[2] : c \in GroupCells(T, l, n)}) :
            <<i, j>> \notin GroupCells(T, l, n)

\* the layers, or nests, that a call with the optional argument a goes over
Over(a, all) == IF a.none THEN all ELSE Elems(a.v)

\* C8: get_data with as_array raises when one of the (layer, inest) groups it
\* goes over has a hole; when it does not raise, every array it returns has
\* max(row) + 1 rows of max(col) + 1 values
C8_ArrayNeedsRectangle ==
    (op.name = "get_data" /\ op.as_array /\ ~op.as_mask) =>
        /\ (\E l \in Over(op.layer, {r.layer : r \in Elems(heap[data])}),
               n \in Over(op.inest, {r.inest : r \in Elems(heap[data])}) :
                HasHole(heap[data], l, n)) => err
        /\ ~err =>
              \A g \in DOMAIN ret :
                 \E l \in Over(op.layer, {r.layer : r \in Elems(heap[data])}),
                    n \in Over(op.inest, {r.inest : r \in Elems(heap[data])}) :
                    /\ GroupCells(heap[data], l, n) # {}
                    /\ Len(ret[g]) = Max({c[1] : c \in GroupCells(heap[data], l, n)}) + 1
                    /\ \A i \in DOMAIN ret[g] :
                          Len(ret[g][i]) =
                              Max({c[2] : c \in GroupCells(heap[data], l, n)}) + 1
                    /\ \A r \in Elems(heap[data]) :
                          (r.layer = l /\ r.inest = n) =>
                              ret[g][r.i + 1][r.j + 1] = r.value

\* get_data with as_array has raised on a table with a hole
C8_Witness ==
    /\ op.name = "get_data"
    /\ op.as_array /\ ~op.as_mask
    /\ err
    /\ \E r \in Elems(heap[data]) : HasHole(heap[data], r.layer, r.inest)

\* every (layer, inest) block of the table is a complete rectangle
CompleteBlocks(T) == \A r \in Elems(T) : ~HasHole(T, r.layer, r.inest)

\* C9: on a table whose blocks are complete rectangles, to_grids() succeeds
\* and grids2rec of its grids has the table's cells, each with its layer,
\* inest, row, col, x, y and value
C9_RoundTrip ==
    (/\ op.name \in {"to_grids", "grids2rec"}
     /\ op.layer.none /\ op.inest.none
     /\ CompleteBlocks(heap[data])) =>
        /\ ~err
        /\ op.name = "grids2rec" =>
              /\ Len(ret) = Len(heap[data])
              /\ Elems(ret) = Elems(heap[data])

\* the domain reference has a cell of a nested grid
HasNest(R) == \E k \in DOMAIN R : R[k].inest # 0

\* C10: set_data(array) raises when the array is not of rank 3 and when the
\* domain reference has a cell with a nest other than 0, and when it raises
\* the field's table is as before
C10_ArrayChecked ==
    [][(/\ op'.name = "set_data"
        /\ op'.kind = "arr"
        /\ op'.layer.none /\ op'.inest.none) =>
            /\ (op'.rank # 3 \/ HasNest(heap[IMASK])) => err'
            /\ err' => (data' = data /\ heap'[data] = heap[data])]_vars

\* how many times the value e occurs in the sequence q
Occurrences(q, e) == Cardinality({k \in DOMAIN q : q[k] = e})

\* the lengths of x, y and layer of the sample call o, a single layer
\* counting as one layer for every point
SampledLengths(o) ==
    <<Len(o.x.v), Len(o.y.v),
      IF Len(o.layer.v) = 1 /\ Len(o.x.v) > 1 THEN Len(o.x.v) ELSE Len(o.layer.v)>>

\* C11: a sample whose x, y and layer (a single layer repeated for several
\* points) have not the same length raises, and has neither built nor
\* queried the spatial index
C11_LengthMismatch ==
    [][(/\ op'.name = "sample"
        /\ \/ SampledLengths(op')[1] # SampledLengths(op')[2]
           \/ SampledLengths(op')[2] # SampledLengths(op')[3]) =>
            /\ err'
            /\ op'.events = <<>>
            /\ spatial_index' = spatial_index]_vars

\* a sample of two points with one y and one layer has raised, the index
\* not being built
C11_Witness ==
    /\ op.name = "sample"
    /\ Len(op.x.v) = 2 /\ Len(op.y.v) = 1 /\ Len(op.layer.v) = 1
    /\ err
    /\ spatial_index.none

\* the layer queried for the k-th point of the sample call o
LayerOfPoint(o, k) == IF Len(o.layer.v) = 1 THEN o.layer.v[1] ELSE o.layer.v[k]

\* the hits of the k-th point of the sample call o that have the node n, the
\* point's layer and a value that is not excluded
HitsToCollect(o, k, n) ==
    {h \in DOMAIN intersection(spatial_index.v, o.x.v[k], o.y.v[k]) :
        /\ intersection(spatial_index.v, o.x.v[k], o.y.v[k])[h].node = n
        /\ intersection(spatial_index.v, o.x.v[k], o.y.v[k])[h].layer
              = LayerOfPoint(o, k)
        /\ \/ o.masked_values.none
           \/ intersection(spatial_index.v, o.x.v[k], o.y.v[k])[h].value
                 \notin o.masked_values.v}

RECURSIVE SumOver(_, _)
\* the sum of f over the set S of its arguments
SumOver(f, S) ==
    IF S = {} THEN 0
    ELSE LET a == CHOOSE a \in S : TRUE IN f[a] + SumOver(f, S \ {a})

\* C12: the index list of a sample holds every row as many times as there
\* are hits, over all the points, with that row, the layer queried for the
\* point and a value that is not excluded
C12_HitsCollected ==
    (op.name = "sample" /\ op.as_idx /\ ~err) =>
        \A n \in 0..(Len(heap[IMASK]) - 1) :
            Occurrences(ret, n) =
                SumOver([k \in DOMAIN op.x.v |->
                            Cardinality(HitsToCollect(op, k, n))],
                        DOMAIN op.x.v)

\* an index list with the same row twice, a hit of another layer and a hit
\* with an excluded value being left out
C12_Witness ==
    /\ op.name = "sample"
    /\ op.as_idx
    /\ ~err
    /\ ~op.masked_values.none
    /\ \E a, b \in DOMAIN ret : a # b /\ ret[a] = ret[b]
    /\ \E k \in DOMAIN op.x.v :
          \E h \in DOMAIN intersection(spatial_index.v, op.x.v[k], op.y.v[k]) :
             intersection(spatial_index.v, op.x.v[k], op.y.v[k])[h].layer
                # LayerOfPoint(op, k)
    /\ \E k \in DOMAIN op.x.v :
          \E h \in DOMAIN intersection(spatial_index.v, op.x.v[k], op.y.v[k]) :
             /\ intersection(spatial_index.v, op.x.v[k], op.y.v[k])[h].layer
                   = LayerOfPoint(op, k)
             /\ intersection(spatial_index.v, op.x.v[k], op.y.v[k])[h].value
                   \in op.masked_values.v

\* the index list of the query of the sample call o
IndexListOf(o) ==
    sample(heap[data], spatial_index, heap[IMASK], o.x, o.y, o.layer,
           o.masked_values, FALSE, TRUE)

\* C13: the mask of a sample has a value for every row of the table, is true
\* on the rows that occur in the index list of the same query and on no
\* other, and so has no more true entries than the index list has elements
C13_MaskWithinIdx ==
    (op.name = "sample" /\ op.as_mask /\ ~op.as_idx /\ ~err) =>
        /\ ~IndexListOf(op).err
        /\ Len(ret) = Len(heap[data])
        /\ \A k \in DOMAIN ret : ret[k] <=> (k - 1) \in Elems(IndexListOf(op).val)
        /\ Cardinality({k \in DOMAIN ret : ret[k]}) <= Len(IndexListOf(op).val)

\* a mask with fewer true entries than the index list has elements
C13_Witness ==
    /\ op.name = "sample"
    /\ op.as_mask /\ ~op.as_idx
    /\ ~err
    /\ Cardinality({k \in DOMAIN ret : ret[k]}) >= 1
    /\ Cardinality({k \in DOMAIN ret : ret[k]}) < Len(IndexListOf(op).val)

\* C14: a sample builds the spatial index when there is none and the lengths
\* of its arguments agree; no call builds it when there is one, or more than
\* once, or queries it before it is built; once built the index stays
C14_IndexBuiltOnce ==
    [][(op'.name \in {"sample", "zonal_stats"} /\ calls' = calls + 1) =>
          /\ Occurrences(op'.events, "build_spatial_index")
                <= (IF spatial_index.none THEN 1 ELSE 0)
          /\ (/\ op'.name = "sample"
              /\ spatial_index.none
              /\ SampledLengths(op')[1] = SampledLengths(op')[2]
              /\ SampledLengths(op')[2] = SampledLengths(op')[3]) =>
                  /\ Occurrences(op'.events, "build_spatial_index") = 1
                  /\ ~spatial_index'.none
          /\ ~spatial_index.none => spatial_index' = spatial_index
          /\ \A k \in DOMAIN op'.events :
                op'.events[k] = "intersection" =>
                    \/ ~spatial_index.none
                    \/ \E b \in 1..(k - 1) : op'.events[b] = "build_spatial_index"
          /\ spatial_index'.none <=>
                /\ spatial_index.none
                /\ Occurrences(op'.events, "build_spatial_index") = 0]_vars

\* a second sample has queried the index that an earlier call has built
C14_Witness ==
    /\ op.name = "sample"
    /\ calls >= 2
    /\ ~err
    /\ Occurrences(op.events, "build_spatial_index") = 0
    /\ Occurrences(op.events, "intersection") >= 1
    /\ ~spatial_index.none

\* the vertices of the field's grid that are inside the polygon p
VerticesInside(p) ==
    Compress(get_xyvertices(heap[data], field).val,
             point_in_polygon(get_xyvertices(heap[data], field).val, p))

\* C15: zonal_stats of a domain-bound field with statistics and a
\* transformation that apply does not fail when a polygon holds no vertex
\* of the grid, and has no row for the zone of such a polygon
C15_EmptyZone ==
    (/\ op.name = "zonal_stats"
     /\ DomainBound
     /\ transform_ok(op.trans)
     /\ \A k \in DOMAIN op.stats : op.stats[k] \in KnownStats
     /\ \E z \in DOMAIN op.polygons : VerticesInside(op.polygons[z]) = <<>>) =>
        /\ ~err
        /\ \A z \in DOMAIN op.polygons :
              VerticesInside(op.polygons[z]) = <<>> =>
                  \A g \in DOMAIN ret : \A k \in DOMAIN ret[g] :
                      ret[g][k].zone # z - 1

\* C16: zonal_stats with a name that is no transformation or a name that is
\* no statistic fails before any work is done for a polygon
C16_EagerValidation ==
    (/\ op.name = "zonal_stats"
     /\ \/ ~check_trans_ok(op.trans)
        \/ \E k \in DOMAIN op.stats : op.stats[k] \notin KnownStats) =>
        /\ err
        /\ op.events = <<>>

\* the field names of the simulated field file
StreamFields == {chasim[k].field : k \in DOMAIN chasim}
\* the isteps the file has for the field f
StreamIsteps(f) == {chasim[k].istep : k \in {a \in DOMAIN chasim : chasim[a].field = f}}
\* the isteps loaded for the field f in the store S
LoadedIstepsOf(S, f) ==
    IF S.built /\ f \in DOMAIN S.data
    THEN {S.data[f].v[k].istep : k \in DOMAIN S.data[f].v}
    ELSE {}

\* C17: the series just built has the file's field names as keys and data
\* for none of them, check_fieldname(f, raise_error=False) then returns
\* (True, False) for a field of the file and (False, False) for another
\* name, and a field gets data only by a load_field of that field
C17_IndexedNotLoaded ==
    [][/\ op'.name = "MartheFieldSeries" =>
            /\ mfs'.built
            /\ Elems(mfs'.fields) = StreamFields
            /\ DOMAIN mfs'.data = StreamFields
            /\ \A f \in StreamFields : mfs'.data[f].none
       /\ (/\ op.name = "MartheFieldSeries"
           /\ op'.name = "check_fieldname"
           /\ ~op'.raise_error) =>
            /\ ~err'
            /\ ret' = <<op'.field \in StreamFields, FALSE>>
       /\ \A f \in StreamFields :
            (mfs.built /\ mfs.data[f].none /\ ~mfs'.data[f].none) =>
                (op'.name = "load_field" /\ op'.field = f)]_vars

\* check_fieldname right after the construction, on a field of the file
C17_Witness ==
    /\ op.name = "check_fieldname"
    /\ ~op.raise_error
    /\ op.field \in StreamFields
    /\ Cardinality(StreamFields) = 2
    /\ \A f \in StreamFields : mfs.data[f].none
    /\ ret = <<TRUE, FALSE>>

\* C18: load_field of a name that is no field of the file raises, reads no
\* grid and leaves the store as it is
C18_UnknownField ==
    [][(op'.name = "load_field" /\ op'.field \notin StreamFields) =>
          /\ err'
          /\ op'.reads = <<>>
          /\ mfs' = mfs]_vars

\* load_field of an unknown name has raised on a store with a loaded field
C18_Witness ==
    /\ op.name = "load_field"
    /\ op.field \notin StreamFields
    /\ err
    /\ \E f \in StreamFields : LoadedIstepsOf(mfs, f) # {}

\* C19: load_field(f, isteps) of a field of the file does not raise, whether
\* the file has the isteps asked for or not, and the isteps then loaded for
\* f are those asked for that the file has
C19_AbsentIstepsDropped ==
    [][(/\ op'.name = "load_field"
        /\ op'.field \in StreamFields
        /\ ~op'.istep.none) =>
            /\ ~err'
            /\ LoadedIstepsOf(mfs', op'.field)
                  = Elems(op'.istep.v) \cap StreamIsteps(op'.field)]_vars

\* C20: a load_field that returns leaves loaded every istep that was loaded
\* before it
C20_LoadsAccumulate ==
    [][(op'.name = "load_field" /\ ~err') =>
          \A f \in StreamFields :
              LoadedIstepsOf(mfs, f) \subseteq LoadedIstepsOf(mfs', f)]_vars

\* the values the file holds for the istep i of the field f, grid after grid
StreamValues(f, i) ==
    Concat([g \in 1..Len(read_grid_file(ref, f, i)) |->
               Concat(read_grid_file(ref, f, i)[g].array)])

\* the table is the domain reference but for its values
SameCells(T, R) ==
    /\ Len(T) = Len(R)
    /\ \A k \in DOMAIN T : [T[k] EXCEPT !.value = 0] = [R[k] EXCEPT !.value = 0]

\* C21: every table of the store is for an istep the file has for the field,
\* has the rows of the domain reference and holds the values the file has
\* for that istep, each as many times as the file has it; and a load_field
\* that raises, also after it has made the tables of some isteps, leaves
\* the store as it was
C21_CompleteTablesOnly ==
    /\ [](mfs.built =>
            \A f \in DOMAIN mfs.data : \A k \in DOMAIN mfs.data[f].v :
                /\ mfs.data[f].v[k].istep \in StreamIsteps(f)
                /\ SameCells(mfs.data[f].v[k].data, heap[IMASK])
                /\ \A v \in Elems(StreamValues(f, mfs.data[f].v[k].istep))
                          \cup Elems(Col(mfs.data[f].v[k].data, "value")) :
                       Occurrences(Col(mfs.data[f].v[k].data, "value"), v)
                          = Occurrences(StreamValues(f, mfs.data[f].v[k].istep), v))
    /\ [][(op'.name = "load_field" /\ err') => mfs' = mfs]_vars

\* load_field has raised at the second of the two isteps it has read, the
\* first being one it could load
C21_Witness ==
    /\ op.name = "load_field"
    /\ err
    /\ op.reads = <<0, 3>>
    /\ op.istep.none
    /\ \A f \in StreamFields : mfs.data[f].none

\* the value the file holds at the istep i of the field f for the cell of
\* the row c: that of the cell's row and column in the grid of the cell's
\* layer and nest
StreamValueOf(f, i, c) ==
    LET g == CHOOSE g \in Elems(read_grid_file(ref, f, i)) :
                 g.layer = c.layer /\ g.inest = c.inest
    IN  g.array[c.i + 1][c.j + 1]

\* C22: every table of the store has the cells of the domain reference, the
\* value of a cell being the value the file holds at that istep for the
\* cell of that layer, nest, row and column, and the domain reference is
\* the one the model started with
C22_CellValuesFromStream ==
    mfs.built =>
        /\ heap[IMASK] = ImaskTable(ref)
        /\ \A f \in DOMAIN mfs.data : \A k \in DOMAIN mfs.data[f].v :
              /\ SameCells(mfs.data[f].v[k].data, heap[IMASK])
              /\ \A c \in DOMAIN mfs.data[f].v[k].data :
                    mfs.data[f].v[k].data[c].value
                       = StreamValueOf(f, mfs.data[f].v[k].istep,
                                       mfs.data[f].v[k].data[c])

\* C23: get_tseries of a field without loaded istep raises and returns
\* nothing, before any lookup: on the assertion that the field exists when
\* the name is no field of the file, on the assertion that it is loaded
\* when it is a field of the file
C23_NotLoadedFails ==
    [][(op'.name = "get_tseries" /\ LoadedIstepsOf(mfs, op'.field) = {}) =>
          /\ err'
          /\ ret' = <<>>
          /\ op'.events = <<>>
          /\ op'.failed = (IF op'.field \in StreamFields THEN "load_msg"
                           ELSE "ex_msg")
          /\ mfs' = mfs]_vars

\* get_tseries has raised for a field of the file that is not loaded,
\* another field being loaded
C23_Witness ==
    /\ op.name = "get_tseries"
    /\ op.field \in StreamFields
    /\ err
    /\ op.failed = "load_msg"
    /\ LoadedIstepsOf(mfs, op.field) = {}
    /\ \E f \in StreamFields : LoadedIstepsOf(mfs, f) # {}

\* the row of the table R whose cell, on layer l, holds the point (x, y)
RowOfPoint(R, x, y, l) ==
    CHOOSE k \in DOMAIN R :
        /\ R[k].layer = l
        /\ 2 * Abs(x - R[k].x) <= Centres(R[k].inest).d
        /\ 2 * Abs(y - R[k].y) <= Centres(R[k].inest).d

\* the table the store S holds for the istep i of the field f
TableOf(S, f, i) ==
    S.data[f].v[CHOOSE k \in DOMAIN S.data[f].v : S.data[f].v[k].istep = i].data

\* the layer of the n-th point of the get_tseries call o
TseriesLayer(o, n) == IF Len(o.layer.v) = 1 THEN o.layer.v[1] ELSE o.layer.v[n]

\* the value of the table of the istep i on the cell of the n-th point of
\* the get_tseries call o
ValueAtPoint(S, o, i, n) ==
    TableOf(S, o.field, i)[RowOfPoint(heap[IMASK], o.x.v[n], o.y.v[n],
                                      TseriesLayer(o, n))].value

\* the values get_tseries is asked to mask, all sentinels when it is not
\* told which
AskedMasked(o) ==
    IF o.masked_values.none THEN Sentinels ELSE Elems(o.masked_values.v)

C25_DefaultSentinelsMasked ==
    [][(op'.name = "get_tseries" /\ ~err' /\ op'.masked_values.none) =>
          /\ Len(ret'.columns) = Len(op'.x.v)
          /\ Len(ret'.values) = Cardinality(LoadedIstepsOf(mfs, op'.field))
          /\ \A r \in DOMAIN ret'.values :
                /\ Len(ret'.values[r]) = Len(op'.x.v)
                /\ \A n \in DOMAIN ret'.values[r] :
                      LET v == ValueAtPoint(mfs, op',
                                   SortedSeq(LoadedIstepsOf(mfs, op'.field))[r], n)
                      IN  ret'.values[r][n]
                             = (IF v \in Sentinels THEN [nan |-> TRUE, v |-> 0]
                                ELSE [nan |-> FALSE, v |-> v])]_vars

\* the lengths of x, y and layer of the get_tseries call o, a single layer
\* counting as one layer for every point
TseriesLengths(o) ==
    <<Len(o.x.v), Len(o.y.v),
      IF Len(o.layer.v) = 1 /\ Len(o.x.v) > 1 THEN Len(o.x.v) ELSE Len(o.layer.v)>>

\* C26: a get_tseries whose x, y and layer (a single layer repeated for
\* several points) have not the same length, or whose names are not as many
\* as x and y, raises without having looked up a node or queried the
\* spatial index
C26_LengthsCheckedFirst ==
    [][(/\ op'.name = "get_tseries"
        /\ \/ TseriesLengths(op')[1] # TseriesLengths(op')[2]
           \/ TseriesLengths(op')[2] # TseriesLengths(op')[3]
           \/ /\ ~op'.names.none
              /\ \/ Len(op'.names.v) # Len(op'.x.v)
                 \/ Len(op'.names.v) # Len(op'.y.v)) =>
            /\ err'
            /\ op'.events = <<>>
            /\ spatial_index' = spatial_index]_vars

\* the (inest, layer) pairs of the rows of the table that the to_grids call
\* o selects
SelectedPairs(o, T) ==
    {<<T[k].inest, T[k].layer>> :
        k \in {a \in DOMAIN T : /\ Admits(o.layer, T[a].layer)
                                 /\ Admits(o.inest, T[a].inest)}}

\* the pairs of the set P, the first component ascending, then the second
PairsInOrder(P) ==
    [k \in 1..Cardinality(P) |->
        LET c == SortedSeq({10 * p[1] + p[2] : p \in P})[k]
        IN  <<c \div 10, c % 10>>]

\* C27: a to_grids that returns gives one grid for each (inest, layer) pair
\* of the selected rows, the nests ascending and the layers ascending
\* within a nest; to_grids raises when a nest and a layer of the selected
\* rows have no row in common
C27_OneGridPerPair ==
    [][op'.name = "to_grids" =>
          /\ ~err' =>
                [k \in 1..Len(ret') |-> <<ret'[k].inest, ret'[k].layer>>]
                    = PairsInOrder(SelectedPairs(op', heap[data]))
          /\ (\E p, q \in SelectedPairs(op', heap[data]) :
                  <<p[1], q[2]>> \notin SelectedPairs(op', heap[data])) => err'
          /\ heap' = heap /\ data' = data]_vars

\* to_grids has returned the grid of the main grid and then the grid of the
\* nested grid
C27_Witness ==
    /\ op.name = "to_grids"
    /\ ~err
    /\ Len(ret) = 2
    /\ ret[1].inest = 0 /\ ret[2].inest = 1
    /\ ret[1].layer = ret[2].layer

\* the table of the field after set_data(b, layer, inest) on the heap h and
\* the field's table d
TableAfterScalar(h, d, b, layer, inest) ==
    set_data(h, d, use_imask, field, DataNum(b), layer, inest).heap[
        set_data(h, d, use_imask, field, DataNum(b), layer, inest).data]

\* C28: once set_data(a, layer, inest) with a number a has returned, a
\* set_data(b, layer, inest) leaves the table that set_data(b, layer, inest)
\* would have left in place of the first call, whatever the numbers a and b
C28_ScalarLastWriterWins ==
    [][(op'.name = "set_data" /\ op'.kind = "num" /\ ~err') =>
          \A b \in {0} \cup Vals :
              TableAfterScalar(heap', data', b, op'.layer, op'.inest)
                 = TableAfterScalar(heap, data, b, op'.layer, op'.inest)]_vars

\* the table T holds the values of the grids, row after row, but for masked
\* values
TableFromGrids(T, grids) ==
    /\ Len(T) = Len(grids2rec(grids))
    /\ \A k \in DOMAIN T :
          T[k].value \in {grids2rec(grids)[k].value} \cup Sentinels

\* C29: a set_data that returns has set the table from its source, with or
\* without layer and inest: after a grid file or a list of grids the table
\* holds the values of these grids, and an array that is not 3D does not
\* pass
C29_NeverSilentlyIgnored ==
    [][(op'.name = "set_data" /\ ~err') =>
          /\ op'.kind \in {"str", "list"} =>
                TableFromGrids(heap'[data'], op'.grids)
          /\ op'.kind = "arr" => op'.rank = 3]_vars

====
